---- MODULE Spec2Model ----
(***************************************************************************)
(* Crawl orchestration engine of atlas-markdown: the persistent crawl      *)
(* frontier (StateManager), the circuit breaker (CircuitBreaker) and the   *)
(* orchestrator (DocumentationScraper.run and its page workers).           *)
(*                                                                         *)
(* Four specifications share the variables:                                *)
(*   SpecFrontier  any sequence of StateManager calls on one table         *)
(*   SpecBreaker   any sequence of CircuitBreaker calls and clock ticks    *)
(*   Spec          one invocation of DocumentationScraper.run              *)
(*   SpecScrape    the scrape phase of a run on a site of four pages       *)
(***************************************************************************)
EXTENDS Integers, Sequences, FiniteSets, TLC

(***************************************************************************)
(* Bounds of the model                                                     *)
(***************************************************************************)
\* cap on retry_count (fail updates are not enumerated beyond it)
MaxRetryCount == 1
\* the clock runs from 0 to MaxTime
MaxTime == 2
\* seconds between the first and the last insert into the pages table
MaxSecond == 1
\* cap on failure_count (record_failure is not enumerated beyond it)
MaxFailureCount == 3
\* CircuitBreaker(failure_threshold, recovery_timeout), scaled down from the
\* orchestrator's (10, 300)
FailureThreshold == 2
RecoveryTimeout == 1
\* the safety ceilings of the run, scaled down: ATLAS_MD_MAX_CONSECUTIVE_FAILURES,
\* ATLAS_MD_MAX_RETRIES, ATLAS_MD_MAX_CRAWL_DEPTH, ATLAS_MD_MAX_PAGES,
\* ATLAS_MD_MAX_RUNTIME_MINUTES (in clock ticks), and ATLAS_MD_WORKERS
MaxConsecutiveFailures == 2
MaxRetryAttempts == 2
MaxCrawlDepth == 1
MaxPages == 2
MaxRuntime == 2
Workers == 2
\* the largest finite float, scaled down (floats are whole numbers up to it)
FloatMax == 16
\* the largest config.max_attempts tried
MaxAttempts == 3
\* the largest attempt number calculate_backoff is called with
MaxBackoffAttempt == 5

\* sample URLs, titles, depths, parents, output paths and error messages
URLs == {"a", "b"}
NULL == "null"
Titles == {NULL, "T"}
Depths == {0, 1}
Paths == {"a.md"}
Errors == {"err"}

PENDING == "pending"
IN_PROGRESS == "in_progress"
COMPLETED == "completed"
FAILED == "failed"
SKIPPED == "skipped"
PageStatus == {PENDING, IN_PROGRESS, COMPLETED, FAILED, SKIPPED}

VARIABLES
    pages,          \* the pages table: sequence of rows in insertion order
    call,           \* the last StateManager / CircuitBreaker call and its arguments
    ret,            \* what that call returned
    before_reset,   \* url -> status as it was when reset_in_progress was last called
    first_add,      \* url -> the arguments of the first add_page call for it
    before_add,     \* the table as it was when add_page was last called
    cb,             \* the CircuitBreaker object: state, failure_count, last_failure_time
    now,            \* the clock (datetime.now(), the event loop's time)
    cb_call,        \* the last CircuitBreaker call and the state it found
    cb_ret,         \* what the last can_attempt() returned
    streak,         \* record_failure() calls since the last record_success()/reset()
    main,           \* where DocumentationScraper.run is
    resume,         \* config["resume"]
    dry_run,        \* config["dry_run"]
    max_retry_attempts,     \* self.max_retry_attempts (ATLAS_MD_MAX_RETRIES)
    domain_restriction,     \* self.domain_restriction (ATLAS_MD_DOMAIN_RESTRICTION)
    workers,        \* config["workers"]
    semaphore,      \* the value asyncio.Semaphore was created with in the running phase
    db_open,        \* the StateManager's connection is open
    tasks,          \* url -> the worker task gathered for it in the running phase
    health,         \* the _periodic_health_check task
    failed_pages_count,     \* self.failed_pages_count
    pages_scraped,          \* self.pages_scraped
    pages0,         \* the pages table as the previous run left it
    touched,        \* the URLs claimed or requested from the site in this run
    cb_opened,      \* the breaker has opened since the running phase began
    url_to_filepath_map,    \* LinkResolver.url_to_filepath_map: url -> path without extension
    saved_files,    \* the URLs file_manager.save_content was called for in this run
    retry,          \* one retry_async call: its arguments, its position, what it did
    limiter,        \* a RateLimiter, its asyncio.Lock and the acquire() calls made on it
    backoff,        \* a RetryConfig and the delays calculate_backoff returned for attempts 1, 2, ...
    follow,         \* one _follow_redirects call: the redirect map, current_url, seen
    relpath,        \* one _calculate_relative_path call: from_path, to_path, the result
    files,          \* the output directory: name of a document file -> its content
    saves,          \* the save_content calls in progress, by caller
    fetching,       \* one worker's fetches: where it is, tokens granted, attempts started
    resolver        \* a LinkResolver's tables and the rows load_from_state_manager reads

fvars == <<pages, call, ret, before_reset, first_add, before_add>>

bvars == <<cb, now, cb_call, cb_ret, streak>>

\* the link resolver's map and the file writer's calls
wvars == <<url_to_filepath_map, saved_files>>

rvars == <<main, resume, dry_run, max_retry_attempts, domain_restriction, workers, semaphore, db_open, tasks, health, failed_pages_count,
           pages_scraped, pages0, touched, cb_opened, wvars>>

\* the variables of the utilities checked on their own
lvars == <<follow, relpath>>

\* the file writer and the throttled fetch checked on their own
svars == <<files, saves, fetching, resolver>>

uvars == <<retry, backoff, limiter, lvars, svars>>

vars == <<pages, call, ret, before_reset, first_add, before_add, cb, now, cb_call, cb_ret, streak,
          main, resume, dry_run, max_retry_attempts, domain_restriction, workers, semaphore,
          db_open, tasks, health,
          failed_pages_count, pages_scraped, pages0, touched, cb_opened, wvars, uvars>>

(***************************************************************************)
(* StateManager: the operations on the pages table, as functions of the    *)
(* table value                                                             *)
(***************************************************************************)
HasUrl(P, url) == \E i \in DOMAIN P : P[i].url = url

RowOf(P, url) == P[CHOOSE i \in DOMAIN P : P[i].url = url]

StatusOf(P, url) == IF HasUrl(P, url) THEN RowOf(P, url).status ELSE NULL

\* INSERT with the column defaults of CREATE TABLE pages; created_at is
\* DEFAULT CURRENT_TIMESTAMP, the clock read in whole seconds
NewRow(url, title, crawl_depth, parent_url, created_at) ==
    [url |-> url, status |-> PENDING, title |-> title, file_path |-> NULL,
     error_message |-> NULL, retry_count |-> 0, crawl_depth |-> crawl_depth,
     parent_url |-> parent_url, created_at |-> created_at]

\* INSERT OR REPLACE: what add_page would do without the conflict clause
add_page_replace(P, url, title, crawl_depth, parent_url, created_at) ==
    IF HasUrl(P, url)
    THEN [i \in DOMAIN P |->
             IF P[i].url = url
             THEN NewRow(url, title, crawl_depth, parent_url, created_at) ELSE P[i]]
    ELSE Append(P, NewRow(url, title, crawl_depth, parent_url, created_at))

\* INSERT OR IGNORE INTO pages (url, title, status, crawl_depth, parent_url),
\* executed in the second created_at
add_page(P, url, title, crawl_depth, parent_url, created_at) ==
    IF HasUrl(P, url)
    THEN P
    ELSE Append(P, NewRow(url, title, crawl_depth, parent_url, created_at))

\* UPDATE pages SET status = ? [, file_path = ?] [, error_message = ?]
\*   [, retry_count = retry_count + 1] WHERE url = ?
update_page_status(P, url, status, file_path, error_message) ==
    [i \in DOMAIN P |->
        IF P[i].url = url
        THEN [P[i] EXCEPT
                !.status = status,
                !.file_path = IF file_path # NULL THEN file_path ELSE @,
                !.error_message = IF error_message # NULL THEN error_message ELSE @,
                !.retry_count = IF status = FAILED THEN @ + 1 ELSE @]
        ELSE P[i]]

\* the order in which the scan over idx_pages_status(status, retry_count)
\* feeds the rows of equal retry_count to the sorter: by status ('failed'
\* sorts before 'pending'), then by rowid, the position in the table
ScanBefore(P, i, j) ==
    \/ P[i].status = FAILED /\ P[j].status = PENDING
    \/ P[i].status = P[j].status /\ i < j

\* ORDER BY crawl_depth ASC, retry_count ASC, created_at ASC; rows equal on
\* the three keys keep the order of the scan
RowBefore(P, i, j) ==
    \/ P[i].crawl_depth < P[j].crawl_depth
    \/ /\ P[i].crawl_depth = P[j].crawl_depth
       /\ P[i].retry_count < P[j].retry_count
    \/ /\ P[i].crawl_depth = P[j].crawl_depth
       /\ P[i].retry_count = P[j].retry_count
       /\ P[i].created_at < P[j].created_at
    \/ /\ P[i].crawl_depth = P[j].crawl_depth
       /\ P[i].retry_count = P[j].retry_count
       /\ P[i].created_at = P[j].created_at
       /\ ScanBefore(P, i, j)

RECURSIVE OrderRows(_, _)
OrderRows(P, idx) ==
    IF idx = {} THEN <<>>
    ELSE LET first == CHOOSE i \in idx : \A j \in idx \ {i} : RowBefore(P, i, j)
         IN  <<first>> \o OrderRows(P, idx \ {first})

\* SELECT url, title, retry_count, crawl_depth
PendingRow(r) ==
    [url |-> r.url, title |-> r.title, retry_count |-> r.retry_count,
     crawl_depth |-> r.crawl_depth]

\* WHERE status IN (pending) only
get_pending_pages_pending_only(P, max_depth) ==
    LET idx == {i \in DOMAIN P :
                    /\ P[i].status = PENDING
                    /\ (max_depth >= 0 => P[i].crawl_depth <= max_depth)}
        ord == OrderRows(P, idx)
    IN  [k \in DOMAIN ord |-> PendingRow(P[ord[k]])]

\* SELECT ... WHERE status IN (pending, failed) [AND crawl_depth <= ?] ORDER BY ...
\* (max_depth = -1 stands for max_depth = None)
get_pending_pages(P, max_depth) ==
    LET idx == {i \in DOMAIN P :
                    /\ P[i].status \in {PENDING, FAILED}
                    /\ (max_depth >= 0 => P[i].crawl_depth <= max_depth)}
        ord == OrderRows(P, idx)
    IN  [k \in DOMAIN ord |-> PendingRow(P[ord[k]])]

\* UPDATE pages SET status = 'pending' without the WHERE clause
reset_in_progress_all(P) == [i \in DOMAIN P |-> [P[i] EXCEPT !.status = PENDING]]

\* UPDATE pages SET status = 'pending' WHERE status = 'in_progress'
reset_in_progress(P) ==
    [i \in DOMAIN P |->
        IF P[i].status = IN_PROGRESS THEN [P[i] EXCEPT !.status = PENDING] ELSE P[i]]

\* UPDATE pages SET status = 'pending', error_message = NULL WHERE url = ?
reset_for_retry(P, url) ==
    [i \in DOMAIN P |->
        IF P[i].url = url
        THEN [P[i] EXCEPT !.status = PENDING, !.error_message = NULL]
        ELSE P[i]]

\* DELETE FROM pages
clear_all(P) == <<>>

\* SELECT ... WHERE status = 'failed' AND retry_count < ?   (the rows, as a set)
get_failed_pages_for_retry(P, max_retries) ==
    {P[i] : i \in {j \in DOMAIN P : P[j].status = FAILED /\ P[j].retry_count < max_retries}}

UrlsOf(rows) == {rows[k].url : k \in DOMAIN rows}

StatusMap(P) == [u \in URLs |-> StatusOf(P, u)]

(***************************************************************************)
(* CircuitBreaker                                                          *)
(***************************************************************************)
CLOSED == "closed"
OPEN == "open"
HALF_OPEN == "half-open"

\* last_failure_time = None
NEVER == -1

\* CircuitBreaker.__init__
NewBreaker == [state |-> CLOSED, failure_count |-> 0, last_failure_time |-> NEVER]

\* record_success closing the breaker without clearing failure_count
record_success_closing_only(b) == [b EXCEPT !.state = CLOSED]

record_success(b) == [b EXCEPT !.failure_count = 0, !.state = CLOSED]

\* record_failure opening only when failure_count > failure_threshold
record_failure_late(b, t) ==
    LET n == b.failure_count + 1
    IN  [b EXCEPT !.failure_count = n,
                  !.last_failure_time = t,
                  !.state = IF n > FailureThreshold THEN OPEN ELSE @]

record_failure(b, t) ==
    LET n == b.failure_count + 1
    IN  [b EXCEPT !.failure_count = n,
                  !.last_failure_time = t,
                  !.state = IF n >= FailureThreshold THEN OPEN ELSE @]

\* can_attempt: the value returned (ok) and the breaker it leaves (b)
can_attempt(b, t) ==
    IF b.state = CLOSED THEN [ok |-> TRUE, b |-> b]
    ELSE IF /\ b.state = OPEN
            /\ b.last_failure_time # NEVER
            /\ t - b.last_failure_time > RecoveryTimeout
         THEN [ok |-> TRUE, b |-> [b EXCEPT !.state = HALF_OPEN]]
         ELSE [ok |-> b.state = HALF_OPEN, b |-> b]

\* CircuitBreaker.reset
reset(b) == [b EXCEPT !.failure_count = 0, !.state = CLOSED, !.last_failure_time = NEVER]

NoArgs == [title |-> NULL, crawl_depth |-> 0, parent_url |-> NULL]

NoCall == [op |-> "none", url |-> NULL, args |-> NoArgs]

NeverAdded == [known |-> FALSE, title |-> NULL, crawl_depth |-> 0, parent_url |-> NULL]

\* a worker task: where it is in scrape_single_page, the final URL and the
\* canonical file its fetch returned, and the crawl depth it read
NoTask == [pc |-> "idle", final |-> NULL, file |-> NULL, depth |-> 0]

\* no worker pool has been created yet
NoSemaphore == 0

\* DocumentationScraper.__init__, on an empty state database
RunInit ==
    /\ main = "new"
    /\ resume = FALSE
    /\ dry_run = FALSE
    /\ max_retry_attempts = MaxRetryAttempts
    /\ domain_restriction = "product"
    /\ workers = Workers
    /\ semaphore = NoSemaphore
    /\ db_open = FALSE
    /\ tasks = [u \in URLs |-> NoTask]
    /\ health = "none"
    /\ failed_pages_count = 0
    /\ pages_scraped = 0
    /\ pages0 = <<>>
    /\ touched = {}
    /\ cb_opened = FALSE
    /\ url_to_filepath_map = [u \in URLs |-> NULL]
    /\ saved_files = {}

(***************************************************************************)
(* calculate_backoff and retry_async (rate_limiter.py)                     *)
(***************************************************************************)
\* delays and float values are whole numbers of a time unit; a float result
\* above FloatMax is out of range
OVERFLOW == -1

\* float ** int: the power, or OverflowError when it is out of range
RECURSIVE pow(_, _)
pow(base, e) ==
    IF e = 0 THEN 1
    ELSE LET p == pow(base, e - 1)
         IN  IF p = OVERFLOW \/ p * base > FloatMax THEN OVERFLOW ELSE p * base

Min(x, y) == IF x <= y THEN x ELSE y

\* calculate_backoff with config.jitter false: the delay, or OVERFLOW when
\* exponential_base ** (attempt - 1) raises OverflowError
calculate_backoff(attempt, config) ==
    LET p == pow(config.exponential_base, attempt - 1)
    IN  IF p = OVERFLOW THEN OVERFLOW
        ELSE Min(config.initial_delay * p, config.max_delay)

\* delay * (0.5 + random.random()): the sampled factors, in tenths
JitterTenths == {5, 10, 14}

\* the delays calculate_backoff can return
backoff_delays(attempt, config) ==
    LET delay == calculate_backoff(attempt, config)
    IN  IF delay = OVERFLOW THEN {OVERFLOW}
        ELSE IF config.jitter THEN {(delay * f) \div 10 : f \in JitterTenths}
        ELSE {delay}

\* the kinds of exception func raises, and the retry_on tuples passed
ExceptionKinds == {"ValueError", "TypeError"}

NoException == [kind |-> "none", call |-> 0]

\* no retry_async call is being made
NoRetry == [pc |-> "idle"]

\* the rest state of the utilities
\* no LinkResolver call in progress
LinkInit == follow = [pc |-> "idle"] /\ relpath = [pc |-> "idle"]

\* save_content gives up numbering duplicates at counter 100; scaled down
CounterLimit == 3

\* the names save_content can give the document of one URL: 0 is the name
\* url_to_filepath returns, k is that name with the suffix _k
FileNames == 0 .. (CounterLimit - 1)

\* the callers of save_content
Savers == {1, 2}

\* overlapped: another call was in progress at some time during this one
NoSave == [pc |-> "idle", content |-> NULL, target |-> 0, overlapped |-> FALSE]

\* an empty output directory and no save_content call in progress
SaveIdle == files = [k \in FileNames |-> NULL] /\ saves = [w \in Savers |-> NoSave]

\* no fetch in progress; page counts the scrape_single_page calls begun,
\* tokens the acquire() calls that returned, attempts the calls of the fetch
\* function, page_tokens the tokens granted within the current call
NoFetching == [pc |-> "idle", page |-> 0, tokens |-> 0, attempts |-> 0, page_tokens |-> 0]

ThrottleIdle == fetching = NoFetching

\* no LinkResolver is being loaded
NoResolver == [pc |-> "idle"]

ResolverIdle == resolver = NoResolver

UtilInit ==
    /\ retry = NoRetry
    /\ backoff = [pc |-> "idle"]
    /\ limiter = [made |-> FALSE]
    /\ LinkInit
    /\ SaveIdle
    /\ ResolverIdle
    /\ ThrottleIdle

(***************************************************************************)
(* SpecFrontier: the StateManager called in any order with any arguments   *)
(***************************************************************************)
FrontierInit ==
    /\ pages = <<>>
    /\ call = NoCall
    /\ ret = <<>>
    /\ before_reset = StatusMap(<<>>)
    /\ first_add = [u \in URLs |-> NeverAdded]
    /\ before_add = <<>>

BreakerInit ==
    /\ cb = NewBreaker
    /\ now = 0
    /\ cb_call = [op |-> "none", from |-> CLOSED]
    /\ cb_ret = TRUE
    /\ streak = 0

\* add_page as discover_pages calls it (a title, depth 0, no parent:
\* cli.py:572-574, 604) and as link discovery calls it (no title, the depth
\* and the URL of the page the link was found on: cli.py:867-869)
AddPageArgs ==
    {[title |-> t, crawl_depth |-> 0, parent_url |-> NULL] : t \in Titles}
    \cup {[title |-> NULL, crawl_depth |-> d, parent_url |-> u] :
              d \in Depths \ {0}, u \in URLs}

\* CURRENT_TIMESTAMP at an insert, in seconds since the first insert: the
\* second of the last insert or the one after it
InsertSeconds(P) ==
    IF P = <<>> THEN {0}
    ELSE {t \in {P[Len(P)].created_at, P[Len(P)].created_at + 1} : t <= MaxSecond}

AddPage ==
    \E url \in URLs, a \in AddPageArgs, t \in InsertSeconds(pages) :
      LET title == a.title
          d == a.crawl_depth
          parent == a.parent_url
      IN
        /\ pages' = add_page(pages, url, title, d, parent, t)
        /\ call' = [op |-> "add_page", url |-> url, args |-> a]
        /\ ret' = <<>>
        /\ before_reset' = StatusMap(<<>>)
        /\ before_add' = pages
        /\ first_add' = IF first_add[url].known THEN first_add
                        ELSE [first_add EXCEPT ![url] =
                                 [known |-> TRUE, title |-> title, crawl_depth |-> d,
                                  parent_url |-> parent]]

\* the orchestrator passes a file path with completed and a message with
\* failed and skipped (cli.py:671-897)
UpdatePageStatus ==
    \E url \in URLs, status \in PageStatus \ {PENDING}, path \in Paths, err \in Errors :
        /\ status = FAILED => \A i \in DOMAIN pages :
                                 pages[i].url = url => pages[i].retry_count < MaxRetryCount
        /\ pages' = update_page_status(pages, url, status,
                        IF status = COMPLETED THEN path ELSE NULL,
                        IF status \in {FAILED, SKIPPED} THEN err ELSE NULL)
        /\ call' = [op |-> "update_page_status", url |-> url, args |-> NoArgs]
        /\ ret' = <<>>
        /\ before_reset' = StatusMap(<<>>)
        /\ before_add' = <<>>
        /\ UNCHANGED first_add

ResetInProgress ==
    /\ pages' = reset_in_progress(pages)
    /\ call' = [op |-> "reset_in_progress", url |-> NULL, args |-> NoArgs]
    /\ ret' = <<>>
    /\ before_reset' = StatusMap(pages)
    /\ before_add' = <<>>
    /\ UNCHANGED first_add

ResetForRetry ==
    \E url \in URLs :
        /\ pages' = reset_for_retry(pages, url)
        /\ call' = [op |-> "reset_for_retry", url |-> url, args |-> NoArgs]
        /\ ret' = <<>>
        /\ before_reset' = StatusMap(<<>>)
        /\ before_add' = <<>>
        /\ UNCHANGED first_add

\* pendingPages() called right after resetInProgress() is told apart from
\* any other call of it
GetPendingPages ==
    \E max_depth \in {-1} \cup Depths :
        /\ ret' = get_pending_pages(pages, max_depth)
        /\ call' = [op |-> IF call.op = "reset_in_progress" /\ max_depth = -1
                           THEN "reset_in_progress;get_pending_pages"
                           ELSE "get_pending_pages",
                    url |-> NULL, args |-> [max_depth |-> max_depth]]
        /\ before_reset' = IF call.op = "reset_in_progress" /\ max_depth = -1
                           THEN before_reset ELSE StatusMap(<<>>)
        /\ before_add' = <<>>
        /\ UNCHANGED <<pages, first_add>>

FrontierNext ==
    \/ AddPage /\ UNCHANGED <<bvars, rvars, uvars>>
    \/ UpdatePageStatus /\ UNCHANGED <<bvars, rvars, uvars>>
    \/ ResetInProgress /\ UNCHANGED <<bvars, rvars, uvars>>
    \/ ResetForRetry /\ UNCHANGED <<bvars, rvars, uvars>>
    \/ GetPendingPages /\ UNCHANGED <<bvars, rvars, uvars>>

\* an empty table, a new breaker and an idle orchestrator
Idle == FrontierInit /\ BreakerInit /\ RunInit /\ UtilInit

SpecFrontier == Idle /\ [][FrontierNext]_vars

(***************************************************************************)
(* SpecBreaker: one CircuitBreaker called in any order while time passes   *)
(***************************************************************************)
RecordSuccess ==
    /\ cb' = record_success(cb)
    /\ cb_call' = [op |-> "record_success", from |-> cb.state]
    /\ streak' = 0
    /\ UNCHANGED <<now, cb_ret>>

RecordFailure ==
    /\ cb.failure_count < MaxFailureCount
    /\ cb' = record_failure(cb, now)
    /\ cb_call' = [op |-> "record_failure", from |-> cb.state]
    /\ streak' = streak + 1
    /\ UNCHANGED <<now, cb_ret>>

CanAttempt ==
    /\ cb' = can_attempt(cb, now).b
    /\ cb_ret' = can_attempt(cb, now).ok
    /\ cb_call' = [op |-> "can_attempt", from |-> cb.state]
    /\ UNCHANGED <<now, streak>>

Reset ==
    /\ cb' = reset(cb)
    /\ cb_call' = [op |-> "reset", from |-> cb.state]
    /\ streak' = 0
    /\ UNCHANGED <<now, cb_ret>>

Tick ==
    /\ now < MaxTime
    /\ now' = now + 1
    /\ cb_call' = [op |-> "tick", from |-> cb.state]
    /\ UNCHANGED <<cb, cb_ret, streak>>

BreakerNext ==
    \/ RecordSuccess /\ UNCHANGED <<fvars, rvars, uvars>>
    \/ RecordFailure /\ UNCHANGED <<fvars, rvars, uvars>>
    \/ CanAttempt /\ UNCHANGED <<fvars, rvars, uvars>>
    \/ Reset /\ UNCHANGED <<fvars, rvars, uvars>>
    \/ Tick /\ UNCHANGED <<fvars, rvars, uvars>>

SpecBreaker == Idle /\ [][BreakerNext]_vars

(***************************************************************************)
(* Spec: one invocation of DocumentationScraper.run on the state database  *)
(* a previous invocation left behind                                       *)
(***************************************************************************)
\* the pages of the site, in the order the site lists them
SiteOrder == <<"a", "b">>

\* FileSystemManager.save_content: the output path of the document of a URL
PathOf(url) == url \o ".md"

\* what a previous run can have left of a URL: nothing, or a record that was
\* added, claimed, and completed or failed
LeftoverKinds == {"absent", PENDING, IN_PROGRESS, COMPLETED, FAILED}

\* the previous run inserted its rows before this run's clock started
PreviousRun == 0 - 1

LeftBy(P, url, kind) ==
    LET added == add_page(P, url, NULL, 0, NULL, PreviousRun)
        claimed == update_page_status(added, url, IN_PROGRESS, NULL, NULL)
    IN  CASE kind = "absent" -> P
          [] kind = PENDING -> added
          [] kind = IN_PROGRESS -> claimed
          [] kind = COMPLETED -> update_page_status(claimed, url, COMPLETED, PathOf(url), NULL)
          [] kind = FAILED -> update_page_status(claimed, url, FAILED, NULL, "err")

RECURSIVE LeftByAll(_, _, _)
LeftByAll(P, kinds, i) ==
    IF i > Len(SiteOrder) THEN P
    ELSE LeftByAll(LeftBy(P, SiteOrder[i], kinds[SiteOrder[i]]), kinds, i + 1)

PreviousFrontiers == {LeftByAll(<<>>, kinds, 1) : kinds \in [URLs -> LeftoverKinds]}

\* the variables of the other two specifications
quiet == <<call, ret, before_reset, first_add, before_add, cb_call, cb_ret, streak, uvars>>

others == <<quiet, wvars>>

\* what no step of a phase changes but the health check and the creation
\* of a worker pool
settings == <<resume, dry_run, max_retry_attempts, domain_restriction, pages0>>

run_config == <<settings, workers, semaphore>>

Init ==
    /\ call = NoCall
    /\ ret = <<>>
    /\ before_reset = StatusMap(<<>>)
    /\ first_add = [u \in URLs |-> NeverAdded]
    /\ before_add = <<>>
    /\ BreakerInit
    /\ UtilInit
    /\ pages \in PreviousFrontiers
    /\ pages0 = pages
    /\ resume \in BOOLEAN
    /\ dry_run \in BOOLEAN
    /\ max_retry_attempts = MaxRetryAttempts
    /\ domain_restriction = "product"
    /\ workers = Workers
    /\ semaphore = NoSemaphore
    /\ main = "new"
    /\ db_open = FALSE
    /\ tasks = [u \in URLs |-> NoTask]
    /\ health = "none"
    /\ failed_pages_count = 0
    /\ pages_scraped = 0
    /\ touched = {}
    /\ cb_opened = FALSE
    /\ url_to_filepath_map = [u \in URLs |-> NULL]
    /\ saved_files = {}

\* a statement of the StateManager on its connection: executed when the
\* connection is open, an error that changes nothing once it is closed
db_execute(open, P, Q) == IF open THEN Q ELSE P

Finished == {"done", "raised", "cancelled"}

InFlight(u) == tasks[u].pc \notin ({"idle", "queued"} \cup Finished)

\* a worker pool without a semaphore: every gathered task runs at once
PoolSize_unbounded == Cardinality(DOMAIN tasks) + 1

\* the pool of the running phase: asyncio.Semaphore(self.config["workers"])
\* in scrape_pages, Semaphore(max(1, self.config["workers"] // 2)) in
\* retry_failed_pages
PoolSize == semaphore

\* the URLs of the site being crawled
Site == DOMAIN tasks

SemaphoreFree == Cardinality({u \in Site : InFlight(u)}) < PoolSize

Crawling == {"startup", "discover", "scrape", "scrape_wait", "images", "retry",
             "retry_wait", "index", "links", "lint", "complete"}

\* Path(file_path).with_suffix(""): the path without its extension
with_suffix_none(file_path) ==
    IF \E stem \in {"a", "b", "c", "d", "s/a"} : file_path = stem \o ".md"
    THEN CHOOSE stem \in {"a", "b", "c", "d", "s/a"} : file_path = stem \o ".md"
    ELSE file_path

\* LinkResolver.add_page_mapping: nothing without a file path, else
\* url_to_filepath_map[url.rstrip("/")] = the path without extension
add_page_mapping(m, url, file_path) ==
    IF file_path = NULL THEN m
    ELSE [m EXCEPT ![url] = with_suffix_none(file_path)]

\* LinkResolver.load_from_state_manager: add_page_mapping for every row
\* WHERE file_path IS NOT NULL
RECURSIVE load_from_state_manager(_, _, _)
load_from_state_manager(m, P, i) ==
    IF i > Len(P) THEN m
    ELSE load_from_state_manager(
             IF P[i].file_path # NULL THEN add_page_mapping(m, P[i].url, P[i].file_path)
             ELSE m, P, i + 1)

\* run(): async with self.state_manager, start_run, create the health task
RunStart ==
    /\ main = "new"
    /\ main' = "startup"
    /\ db_open' = TRUE
    /\ health' = "running"
    /\ url_to_filepath_map' = load_from_state_manager(url_to_filepath_map, pages, 1)
    /\ UNCHANGED <<pages, cb, now, tasks, failed_pages_count, pages_scraped,
                   touched, cb_opened, saved_files, run_config, quiet>>

\* run(): reset_in_progress() when resuming, clear_all() otherwise
Startup ==
    /\ main = "startup"
    /\ pages' = IF resume THEN db_execute(db_open, pages, reset_in_progress(pages))
                ELSE db_execute(db_open, pages, clear_all(pages))
    /\ main' = "discover"
    /\ UNCHANGED <<cb, now, db_open, tasks, health, failed_pages_count, pages_scraped,
                   touched, cb_opened, run_config, others>>

\* discover_pages from the initial state: add_page(url, title, 0) until
\* max_pages URLs were added
RECURSIVE discover_initial_state(_, _, _)
discover_initial_state(P, i, added_count) ==
    IF i > Len(SiteOrder) THEN P
    ELSE LET Q == add_page(P, SiteOrder[i], "T", 0, NULL, now)
         IN  IF MaxPages > 0 /\ added_count + 1 >= MaxPages THEN Q
             ELSE discover_initial_state(Q, i + 1, added_count + 1)

\* discover_pages from the sitemap: add_page(url) for every URL
RECURSIVE discover_sitemap(_, _, _)
discover_sitemap(P, sitemap, i) ==
    IF i > Len(sitemap) THEN P
    ELSE discover_sitemap(add_page(P, sitemap[i], NULL, 0, NULL, now), sitemap, i + 1)

\* Phase 1
DiscoverPages ==
    /\ main = "discover"
    /\ IF dry_run THEN UNCHANGED pages
       ELSE \/ pages' = discover_initial_state(pages, 1, 0)
            \/ pages' = discover_sitemap(pages, SiteOrder, 1)
    /\ main' = "scrape"
    /\ UNCHANGED <<cb, now, db_open, tasks, health, failed_pages_count, pages_scraped,
                   touched, cb_opened, run_config, others>>

\* Phase 2: scrape_pages up to asyncio.gather
ScrapePages ==
    /\ main = "scrape"
    /\ LET pending == get_pending_pages(pages, IF MaxCrawlDepth > 0 THEN MaxCrawlDepth ELSE -1)
       IN  IF (MaxPages > 0 /\ pages_scraped >= MaxPages) \/ pending = <<>>
           THEN main' = "images" /\ UNCHANGED <<tasks, semaphore>>
           ELSE /\ main' = "scrape_wait"
                /\ semaphore' = workers
                /\ tasks' = [u \in Site |->
                                IF u \in UrlsOf(pending) THEN [NoTask EXCEPT !.pc = "queued"]
                                ELSE NoTask]
    /\ UNCHANGED <<pages, cb, now, db_open, health, failed_pages_count, pages_scraped,
                   touched, cb_opened, settings, workers, others>>

\* asyncio.gather returning once one of its tasks has finished, the others
\* still running
GatherDone_first_done ==
    /\ main \in {"scrape_wait", "retry_wait"}
    /\ \E u \in Site : tasks[u].pc \in Finished
    /\ main' = IF main = "scrape_wait" THEN "images" ELSE "index"
    /\ UNCHANGED <<pages, cb, now, db_open, tasks, health, failed_pages_count,
                   pages_scraped, touched, cb_opened, run_config, others>>

\* asyncio.gather(*tasks, return_exceptions=True) returns
GatherDone ==
    /\ main \in {"scrape_wait", "retry_wait"}
    /\ \A u \in Site : tasks[u].pc \in {"idle"} \cup Finished
    /\ main' = IF main = "scrape_wait" THEN "images" ELSE "index"
    /\ tasks' = [u \in Site |-> NoTask]
    /\ UNCHANGED <<pages, cb, now, db_open, health, failed_pages_count, pages_scraped,
                   touched, cb_opened, run_config, others>>

\* Phase 3 (the images table is not modelled)
DownloadImages ==
    /\ main = "images"
    /\ main' = "retry"
    /\ UNCHANGED <<pages, cb, now, db_open, tasks, health, failed_pages_count,
                   pages_scraped, touched, cb_opened, run_config, others>>

\* Phase 4: retry_failed_pages up to asyncio.gather
RetryFailedPages ==
    /\ main = "retry"
    /\ LET failed_pages == get_failed_pages_for_retry(pages, max_retry_attempts)
       IN  IF dry_run \/ failed_pages = {}
           THEN main' = "index" /\ UNCHANGED <<tasks, cb, cb_opened, semaphore>>
           ELSE /\ main' = "retry_wait"
                /\ semaphore' = (IF workers \div 2 >= 1 THEN workers \div 2 ELSE 1)
                /\ cb' = reset(cb)
                /\ cb_opened' = FALSE
                /\ tasks' = [u \in Site |->
                                IF \E r \in failed_pages : r.url = u
                                THEN [NoTask EXCEPT !.pc = "queued"]
                                ELSE NoTask]
    /\ UNCHANGED <<pages, now, db_open, health, failed_pages_count, pages_scraped,
                   touched, settings, workers, others>>

\* Phases 5 to 7 and complete_run; Phase 6 (fix_wiki_links, skipped in a dry
\* run) begins with load_from_state_manager
LaterPhase ==
    /\ main \in {"index", "links", "lint"}
    /\ main' = CASE main = "index" -> "links"
                 [] main = "links" -> "lint"
                 [] main = "lint" -> "complete"
    /\ url_to_filepath_map' =
          IF main = "links" /\ ~dry_run /\ db_open
          THEN load_from_state_manager(url_to_filepath_map, pages, 1)
          ELSE url_to_filepath_map
    /\ UNCHANGED <<pages, cb, now, db_open, tasks, health, failed_pages_count,
                   pages_scraped, touched, cb_opened, run_config, saved_files, quiet>>

\* finally: health_task.cancel(); await health_task (which re-raises what the
\* task raised); show_statistics; __aexit__ closes the connection
Finish ==
    /\ main = "complete"
    /\ main' = IF health = "raised" THEN "exit_fatal" ELSE "exit_ok"
    /\ health' = IF health = "raised" THEN health ELSE "cancelled"
    /\ db_open' = FALSE
    /\ UNCHANGED <<pages, cb, now, tasks, failed_pages_count, pages_scraped,
                   touched, cb_opened, run_config, others>>

\* retry_page: past the semaphore and the backoff sleep, reset_for_retry(url)
RetryPage(u) ==
    /\ main = "retry_wait"
    /\ tasks[u].pc = "queued"
    /\ SemaphoreFree
    /\ pages' = db_execute(db_open, pages, reset_for_retry(pages, u))
    /\ tasks' = [tasks EXCEPT ![u].pc = "reset"]
    /\ UNCHANGED <<cb, now, main, db_open, health, failed_pages_count, pages_scraped,
                   touched, cb_opened, run_config, others>>

\* scrape_single_page: the page limit check, then get_page_info
Begin(u) ==
    /\ \/ main = "scrape_wait" /\ tasks[u].pc = "queued" /\ SemaphoreFree
       \/ main = "retry_wait" /\ tasks[u].pc = "reset"
    /\ IF MaxPages > 0 /\ pages_scraped >= MaxPages
       THEN /\ pages' = db_execute(db_open, pages,
                            update_page_status(pages, u, SKIPPED, NULL, "Page limit reached"))
            /\ tasks' = [tasks EXCEPT ![u].pc = "done"]
       ELSE /\ tasks' = [tasks EXCEPT ![u].pc = "info",
                                      ![u].depth = IF HasUrl(pages, u)
                                                   THEN RowOf(pages, u).crawl_depth ELSE 0]
            /\ UNCHANGED pages
    /\ UNCHANGED <<cb, now, main, db_open, health, failed_pages_count, pages_scraped,
                   touched, cb_opened, run_config, others>>

\* the refusal routed through the failure accounting of the except handlers
Gate_counting(u) ==
    /\ tasks[u].pc = "info"
    /\ IF can_attempt(cb, now).ok
       THEN /\ cb' = can_attempt(cb, now).b
            /\ pages' = db_execute(db_open, pages,
                            update_page_status(pages, u, IN_PROGRESS, NULL, NULL))
            /\ tasks' = [tasks EXCEPT ![u].pc = "claimed"]
            /\ touched' = touched \cup {u}
            /\ UNCHANGED failed_pages_count
       ELSE /\ cb' = record_failure(cb, now)
            /\ failed_pages_count' = failed_pages_count + 1
            /\ pages' = db_execute(db_open, pages,
                            update_page_status(pages, u, FAILED, NULL, "Circuit breaker open"))
            /\ tasks' = [tasks EXCEPT ![u].pc = "done"]
            /\ UNCHANGED touched
    /\ UNCHANGED <<now, main, db_open, health, pages_scraped, cb_opened, run_config, others>>

\* scrape_single_page: circuit_breaker.can_attempt(), then either failed
\* "Circuit breaker open" or the claim (status in_progress)
Gate(u) ==
    /\ tasks[u].pc = "info"
    /\ cb' = can_attempt(cb, now).b
    /\ IF can_attempt(cb, now).ok
       THEN /\ pages' = db_execute(db_open, pages,
                            update_page_status(pages, u, IN_PROGRESS, NULL, NULL))
            /\ tasks' = [tasks EXCEPT ![u].pc = "claimed"]
            /\ touched' = touched \cup {u}
       ELSE /\ pages' = db_execute(db_open, pages,
                            update_page_status(pages, u, FAILED, NULL, "Circuit breaker open"))
            /\ tasks' = [tasks EXCEPT ![u].pc = "done"]
            /\ UNCHANGED touched
    /\ UNCHANGED <<now, main, db_open, health, failed_pages_count, pages_scraped,
                   cb_opened, run_config, others>>

\* scrape_single_page: rate_limiter.acquire() and throttled_request(
\* scrape_with_browser_and_extract): the browser ends on final_url; a redirect
\* to a completed URL returns its file, otherwise the content is extracted, or
\* the attempts end in a timeout or in another exception
Fetch(u) ==
    /\ tasks[u].pc = "claimed"
    /\ touched' = touched \cup {u}
    /\ \/ \E final \in Site :
            IF final # u /\ StatusOf(pages, final) = COMPLETED
            THEN tasks' = [tasks EXCEPT
                             ![u].pc = IF RowOf(pages, final).file_path # NULL
                                       THEN "duplicate" ELSE "error",
                             ![u].final = final,
                             ![u].file = RowOf(pages, final).file_path]
            ELSE tasks' = [tasks EXCEPT ![u].pc = "content", ![u].final = final]
       \/ tasks' = [tasks EXCEPT ![u].pc = "timeout"]
       \/ tasks' = [tasks EXCEPT ![u].pc = "error"]
    /\ UNCHANGED <<pages, cb, now, main, db_open, health, failed_pages_count,
                   pages_scraped, cb_opened, run_config, others>>

\* UPDATE pages SET title = ? WHERE url = ?
set_title(P, url, title) ==
    [i \in DOMAIN P |-> IF P[i].url = url THEN [P[i] EXCEPT !.title = title] ELSE P[i]]

\* scrape_single_page: save_content(save_url), the title, completed for
\* save_url and, after a redirect, for the requested URL too
save_page(P, url, final) ==
    LET saved == update_page_status(set_title(P, final, "T"), final, COMPLETED,
                                    PathOf(final), NULL)
    IN  IF final # url
        THEN update_page_status(saved, url, COMPLETED, PathOf(final), NULL)
        ELSE saved

\* scrape_single_page: add_page_mapping(save_url, title, file_path) and,
\* after a redirect, add_page_mapping(url, title, file_path)
save_mappings(m, url, final) ==
    LET saved == add_page_mapping(m, final, PathOf(final))
    IN  IF final # url THEN add_page_mapping(saved, url, PathOf(final)) ELSE saved

\* the record update with create_redirect_stubs set: a stub document is
\* written for the requested URL and its record points to the stub
Save_with_stubs(u) ==
    /\ tasks[u].pc \in {"content", "duplicate"}
    /\ pages' = IF tasks[u].pc = "content"
                THEN db_execute(db_open, pages,
                         update_page_status(save_page(pages, u, tasks[u].final), u,
                                            COMPLETED, PathOf(u), NULL))
                ELSE db_execute(db_open, pages,
                         update_page_status(pages, u, COMPLETED, PathOf(u), NULL))
    /\ saved_files' = IF tasks[u].pc = "content" THEN saved_files \cup {tasks[u].final, u}
                      ELSE saved_files \cup {u}
    /\ url_to_filepath_map' =
          IF tasks[u].pc = "duplicate"
          THEN add_page_mapping(url_to_filepath_map, u, tasks[u].file)
          ELSE IF db_open THEN save_mappings(url_to_filepath_map, u, tasks[u].final)
          ELSE url_to_filepath_map
    /\ tasks' = [tasks EXCEPT ![u].pc = IF tasks[u].pc = "content" THEN "saved" ELSE "referred"]
    /\ UNCHANGED <<cb, now, main, db_open, health, failed_pages_count, pages_scraped,
                   touched, cb_opened, run_config, quiet>>

\* scrape_single_page: the document is written and the records are completed
\* (content), or the requested URL is completed by reference (duplicate)
Save(u) ==
    /\ tasks[u].pc \in {"content", "duplicate"}
    /\ pages' = IF tasks[u].pc = "content"
                THEN db_execute(db_open, pages, save_page(pages, u, tasks[u].final))
                ELSE db_execute(db_open, pages,
                         update_page_status(pages, u, COMPLETED, tasks[u].file, NULL))
    /\ saved_files' = IF tasks[u].pc = "content" THEN saved_files \cup {tasks[u].final}
                      ELSE saved_files
    /\ url_to_filepath_map' =
          IF tasks[u].pc = "duplicate"
          THEN add_page_mapping(url_to_filepath_map, u, tasks[u].file)
          ELSE IF db_open THEN save_mappings(url_to_filepath_map, u, tasks[u].final)
          ELSE url_to_filepath_map
    /\ tasks' = [tasks EXCEPT ![u].pc = IF tasks[u].pc = "content" THEN "saved" ELSE "referred"]
    /\ UNCHANGED <<cb, now, main, db_open, health, failed_pages_count, pages_scraped,
                   touched, cb_opened, run_config, quiet>>

\* the hrefs a page can hold, in document order: pages under base_url, a page
\* of another product on support.atlassian.com ("o") and a page of another
\* host ("x")
HrefOrder == <<"a", "b", "c", "o", "x">>

Hrefs == {HrefOrder[i] : i \in DOMAIN HrefOrder}

\* url.startswith("https://support.atlassian.com/"), url.startswith(base_url)
Atlassian(url) == url # "x"

UnderBase(url) == url \notin {"o", "x"}

DomainRestrictions == {"off", "product", "any-atlassian"}

\* is_url_allowed without the test that rejects other hosts
is_url_allowed_open(mode, url) == mode # "product" \/ UnderBase(url)

\* is_url_allowed
is_url_allowed(mode, url) ==
    IF mode = "off" THEN TRUE
    ELSE IF ~Atlassian(url) THEN FALSE
    ELSE IF mode = "product" THEN UnderBase(url)
    ELSE IF mode = "any-atlassian" THEN TRUE
    ELSE UnderBase(url)

\* if self.is_url_allowed(link): add_page(link, crawl_depth=next_depth,
\* parent_url=url), for every link
RECURSIVE add_links(_, _, _, _, _)
add_links(P, links, i, next_depth, url) ==
    IF i > Len(HrefOrder) THEN P
    ELSE add_links(IF HrefOrder[i] \in links /\ is_url_allowed(domain_restriction, HrefOrder[i])
                   THEN add_page(P, HrefOrder[i], NULL, next_depth, url, now) ELSE P,
                   links, i + 1, next_depth, url)

\* scrape_single_page: the links of the page are enqueued at depth + 1,
\* pages_scraped += 1, record_success(), failed_pages_count = 0
SucceedWith(u, hrefs) ==
    /\ tasks[u].pc \in {"saved", "referred"}
    /\ IF tasks[u].pc = "saved"
       THEN /\ \E links \in SUBSET hrefs :
                 pages' = IF MaxCrawlDepth = 0 \/ tasks[u].depth + 1 <= MaxCrawlDepth
                          THEN db_execute(db_open, pages,
                                   add_links(pages, links, 1, tasks[u].depth + 1, u))
                          ELSE pages
            /\ pages_scraped' = pages_scraped + 1
       ELSE UNCHANGED <<pages, pages_scraped>>
    /\ cb' = record_success(cb)
    /\ failed_pages_count' = 0
    /\ tasks' = [tasks EXCEPT ![u].pc = "done"]
    /\ UNCHANGED <<now, main, db_open, health, touched, cb_opened, run_config, others>>

\* the pages link to pages the sitemap lists
Succeed(u) == SucceedWith(u, URLs)

\* the pages link to anything
SucceedAnywhere(u) == SucceedWith(u, Hrefs)

\* except TimeoutError / except Exception: the record is marked failed
Fail(u) ==
    /\ tasks[u].pc \in {"timeout", "error"}
    /\ pages' = db_execute(db_open, pages,
                    update_page_status(pages, u, FAILED, NULL,
                        IF tasks[u].pc = "timeout" THEN "Timeout while scraping page"
                        ELSE "err"))
    /\ tasks' = [tasks EXCEPT ![u].pc = IF tasks[u].pc = "timeout" THEN "timed_out"
                                        ELSE "excepted"]
    /\ UNCHANGED <<cb, now, main, db_open, health, failed_pages_count, pages_scraped,
                   touched, cb_opened, run_config, others>>

\* the handlers raising on every failure, whatever failed_pages_count is
CountFailure_propagating(u) ==
    /\ tasks[u].pc \in {"timed_out", "excepted"}
    /\ cb' = record_failure(cb, now)
    /\ cb_opened' = (cb_opened \/ (cb.state # OPEN /\ cb'.state = OPEN))
    /\ failed_pages_count' = failed_pages_count + 1
    /\ tasks' = [tasks EXCEPT ![u].pc = "raised"]
    /\ UNCHANGED <<pages, now, main, db_open, health, pages_scraped, touched,
                   run_config, others>>

\* except TimeoutError / except Exception: record_failure(),
\* failed_pages_count += 1 and, in except Exception only, RuntimeError("Too
\* many consecutive page failures") at the ceiling
CountFailure(u) ==
    /\ tasks[u].pc \in {"timed_out", "excepted"}
    /\ cb' = record_failure(cb, now)
    /\ cb_opened' = (cb_opened \/ (cb.state # OPEN /\ cb'.state = OPEN))
    /\ failed_pages_count' = failed_pages_count + 1
    /\ tasks' = [tasks EXCEPT ![u].pc =
                    IF tasks[u].pc = "excepted"
                       /\ failed_pages_count + 1 >= MaxConsecutiveFailures
                    THEN "raised" ELSE "done"]
    /\ UNCHANGED <<pages, now, main, db_open, health, pages_scraped, touched,
                   run_config, others>>

\* _periodic_health_check: elapsed_minutes >= max_runtime_minutes raises
\* RuntimeError inside the health task (start_time is 0)
HealthCheck ==
    /\ health = "running"
    /\ MaxRuntime > 0
    /\ now - 0 >= MaxRuntime
    /\ health' = "raised"
    /\ UNCHANGED <<pages, cb, now, main, db_open, tasks, failed_pages_count,
                   pages_scraped, touched, cb_opened, run_config, others>>

\* the operator interrupts: CancelledError at the await run() is suspended in;
\* gather cancels the workers, finally awaits the health task, __aexit__
\* closes the connection
Cancel ==
    /\ main \in Crawling
    /\ tasks' = [u \in Site |->
                    IF tasks[u].pc \in {"idle"} \cup Finished THEN tasks[u]
                    ELSE [tasks[u] EXCEPT !.pc = "cancelled"]]
    /\ main' = IF health = "raised" THEN "exit_fatal" ELSE "cancelling"
    /\ health' = IF health = "raised" THEN health ELSE "cancelled"
    /\ db_open' = FALSE
    /\ UNCHANGED <<pages, cb, now, failed_pages_count, pages_scraped, touched,
                   cb_opened, run_config, others>>

\* except asyncio.CancelledError: reset_in_progress(), then raise
CancelHandler ==
    /\ main = "cancelling"
    /\ pages' = db_execute(db_open, pages, reset_in_progress(pages))
    /\ main' = "exit_cancelled"
    /\ UNCHANGED <<cb, now, db_open, tasks, health, failed_pages_count, pages_scraped,
                   touched, cb_opened, run_config, others>>

\* time passes while the run is on
Elapse ==
    /\ main \in Crawling
    /\ now < MaxTime
    /\ now' = now + 1
    /\ UNCHANGED <<pages, cb, main, db_open, tasks, health, failed_pages_count,
                   pages_scraped, touched, cb_opened, run_config, others>>

Next ==
    \/ RunStart
    \/ Startup
    \/ DiscoverPages
    \/ ScrapePages
    \/ GatherDone
    \/ DownloadImages
    \/ RetryFailedPages
    \/ LaterPhase
    \/ Finish
    \/ HealthCheck
    \/ Cancel
    \/ CancelHandler
    \/ Elapse
    \/ \E u \in Site : RetryPage(u)
    \/ \E u \in Site : Begin(u)
    \/ \E u \in Site : Gate(u)
    \/ \E u \in Site : Fetch(u)
    \/ \E u \in Site : Save(u)
    \/ \E u \in Site : Succeed(u)
    \/ \E u \in Site : Fail(u)
    \/ \E u \in Site : CountFailure(u)

Spec == Init /\ [][Next]_vars

(***************************************************************************)
(* SpecScrape: the scrape phase (Phase 2) of a fresh run on a site of four *)
(* pages found in its sitemap, from the moment scrape_pages has gathered   *)
(* one worker task per pending page                                        *)
(***************************************************************************)
LargeSiteOrder == <<"a", "b", "c", "d">>

ScrapeInit ==
    /\ call = NoCall
    /\ ret = <<>>
    /\ before_reset = StatusMap(<<>>)
    /\ first_add = [u \in URLs |-> NeverAdded]
    /\ before_add = <<>>
    /\ BreakerInit
    /\ UtilInit
    /\ pages = discover_sitemap(clear_all(<<>>), LargeSiteOrder, 1)
    /\ pages0 = <<>>
    /\ resume = FALSE
    /\ dry_run = FALSE
    /\ max_retry_attempts = MaxRetryAttempts
    /\ domain_restriction = "product"
    /\ workers = Workers
    /\ semaphore = Workers
    /\ main = "scrape_wait"
    /\ db_open = TRUE
    /\ tasks = [u \in UrlsOf(get_pending_pages(pages, MaxCrawlDepth)) |->
                    [NoTask EXCEPT !.pc = "queued"]]
    /\ health = "running"
    /\ failed_pages_count = 0
    /\ pages_scraped = 0
    /\ touched = {}
    /\ cb_opened = FALSE
    /\ url_to_filepath_map = [u \in DOMAIN tasks |-> NULL]
    /\ saved_files = {}

ScrapeNext ==
    \/ GatherDone
    \/ Elapse
    \/ \E u \in Site : Begin(u)
    \/ \E u \in Site : Gate(u)
    \/ \E u \in Site : Fetch(u)
    \/ \E u \in Site : Save(u)
    \/ \E u \in Site : Succeed(u)
    \/ \E u \in Site : Fail(u)
    \/ \E u \in Site : CountFailure(u)

SpecScrape == ScrapeInit /\ [][ScrapeNext]_vars

(***************************************************************************)
(* SpecRetry: one call retry_async(func, config=config, retry_on=retry_on) *)
(* of a func that returns or raises as it likes                            *)
(***************************************************************************)
RetryConfigs ==
    [max_attempts : 0..MaxAttempts, initial_delay : {1, 2}, max_delay : {3},
     exponential_base : {2}, jitter : BOOLEAN]

RetryOns == {ExceptionKinds, {"ValueError"}}

\* retry_async is entered: last_exception = None
NewRetry(config, retry_on) ==
    [pc |-> "start", config |-> config, retry_on |-> retry_on, attempt |-> 0,
     calls |-> 0, failures |-> <<>>, sleeps |-> <<>>,
     last_exception |-> NoException, outcome |-> NoException]

\* raise last_exception: the handler re-raising the first failure it saw
retry_outcome_first(r, o, delay) ==
    IF o.kind = "value" THEN [r EXCEPT !.pc = "returned", !.outcome = o]
    ELSE IF o.kind \in r.retry_on
    THEN IF r.attempt = r.config.max_attempts
         THEN [r EXCEPT !.pc = "raised", !.last_exception = o,
                        !.outcome = [kind |-> r.failures[1], call |-> 1]]
         ELSE [r EXCEPT !.pc = "sleep", !.last_exception = o, !.sleeps = Append(@, delay)]
    ELSE [r EXCEPT !.pc = "raised", !.outcome = o]

\* except Exception: the handler catching every kind of failure
retry_outcome_any(r, o, delay) ==
    IF o.kind = "value" THEN [r EXCEPT !.pc = "returned", !.outcome = o]
    ELSE IF r.attempt = r.config.max_attempts
         THEN [r EXCEPT !.pc = "raised", !.last_exception = o, !.outcome = o]
         ELSE [r EXCEPT !.pc = "sleep", !.last_exception = o, !.sleeps = Append(@, delay)]

\* retry_async from the result o of await func() to its next await or its
\* exit: return, except retry_on (raise at the last attempt, otherwise
\* calculate_backoff and asyncio.sleep(delay)), or the exception propagates
retry_outcome(r, o, delay) ==
    IF o.kind = "value" THEN [r EXCEPT !.pc = "returned", !.outcome = o]
    ELSE IF o.kind \in r.retry_on
    THEN IF r.attempt = r.config.max_attempts
         THEN [r EXCEPT !.pc = "raised", !.last_exception = o, !.outcome = o]
         ELSE IF delay = OVERFLOW
         THEN [r EXCEPT !.pc = "raised", !.last_exception = o,
                        !.outcome = [kind |-> "OverflowError", call |-> o.call]]
         ELSE [r EXCEPT !.pc = "sleep", !.last_exception = o, !.sleeps = Append(@, delay)]
    ELSE [r EXCEPT !.pc = "raised", !.outcome = o]

RetryInit ==
    /\ FrontierInit
    /\ BreakerInit
    /\ RunInit
    /\ retry \in {NewRetry(config, retry_on) : config \in RetryConfigs, retry_on \in RetryOns}
    /\ backoff = [pc |-> "idle"]
    /\ limiter = [made |-> FALSE]
    /\ LinkInit
    /\ SaveIdle
    /\ ResolverIdle
    /\ ThrottleIdle

\* for attempt in range(1, config.max_attempts + 1): the first attempt, or
\* RuntimeError("Retry failed without exception") when the range is empty
RetryStart ==
    /\ retry.pc = "start"
    /\ retry' = IF retry.config.max_attempts >= 1
                THEN [retry EXCEPT !.pc = "call", !.attempt = 1]
                ELSE [retry EXCEPT !.pc = "raised",
                                   !.outcome = [kind |-> "RuntimeError", call |-> 0]]

\* await func(*args, **kwargs) returns a value or raises, and retry_async
\* handles it
RetryCall ==
    /\ retry.pc = "call"
    /\ \E kind \in {"value"} \cup ExceptionKinds,
          delay \in backoff_delays(retry.attempt, retry.config) :
          LET n == retry.calls + 1
              called == [retry EXCEPT
                            !.calls = n,
                            !.failures = IF kind = "value" THEN @ ELSE Append(@, kind)]
          IN  retry' = retry_outcome(called, [kind |-> kind, call |-> n], delay)

\* asyncio.sleep(delay) is over: the next attempt
RetryWake ==
    /\ retry.pc = "sleep"
    /\ retry' = [retry EXCEPT !.pc = "call", !.attempt = @ + 1]

RetryNext ==
    \/ RetryStart /\ UNCHANGED <<fvars, bvars, rvars, backoff, limiter, lvars, svars>>
    \/ RetryCall /\ UNCHANGED <<fvars, bvars, rvars, backoff, limiter, lvars, svars>>
    \/ RetryWake /\ UNCHANGED <<fvars, bvars, rvars, backoff, limiter, lvars, svars>>

SpecRetry == RetryInit /\ [][RetryNext]_vars

(***************************************************************************)
(* SpecBackoff: calculate_backoff(attempt, config) for attempt = 1, 2, ... *)
(***************************************************************************)
BackoffConfigs ==
    [initial_delay : {1, 2}, max_delay : {2, 5}, exponential_base : {1, 2, 3},
     jitter : BOOLEAN]

BackoffInit ==
    /\ FrontierInit
    /\ BreakerInit
    /\ RunInit
    /\ retry = NoRetry
    /\ limiter = [made |-> FALSE]
    /\ LinkInit
    /\ SaveIdle
    /\ ResolverIdle
    /\ ThrottleIdle
    /\ backoff \in {[pc |-> "called", config |-> c, delays |-> <<>>] : c \in BackoffConfigs}

\* calculate_backoff(attempt, config) for the next attempt number
CalculateBackoff ==
    /\ backoff.pc = "called"
    /\ Len(backoff.delays) < MaxBackoffAttempt
    /\ \E delay \in backoff_delays(Len(backoff.delays) + 1, backoff.config) :
          backoff' = [backoff EXCEPT !.delays = Append(@, delay)]

BackoffNext == CalculateBackoff /\ UNCHANGED <<fvars, bvars, rvars, retry, limiter, lvars, svars>>

SpecBackoff == BackoffInit /\ [][BackoffNext]_vars

(***************************************************************************)
(* SpecLimiter: concurrent acquire() calls on one RateLimiter while time   *)
(* passes. Tokens and times are whole numbers: rate tokens per tick.       *)
(***************************************************************************)
\* the coroutines that call acquire
Acquirers == {1, 2, 3}

\* nobody holds the asyncio.Lock
FREE == 0

\* RateLimiter(rate, burst) constructed at time t, and the tokens each
\* coroutine will ask for
NewLimiter(rate, burst, want, t) ==
    [made |-> TRUE, rate |-> rate, burst |-> burst, tokens |-> burst, last_update |-> t,
     holder |-> FREE, waiters |-> <<>>,
     pc |-> [p \in Acquirers |-> "idle"], want |-> want,
     slept_at |-> t, needed |-> 0,
     granted |-> 0, admitted |-> <<>>, last |-> [p |-> 0, refilled |-> burst]]

\* the loop body without self.last_update = now
acquire_loop_stale(l, p, t) ==
    LET refilled == Min(l.burst, l.tokens + (t - l.last_update) * l.rate)
        n == l.want[p]
    IN  IF refilled >= n
        THEN [l EXCEPT !.tokens = refilled - n, !.holder = FREE,
                       !.pc[p] = "done", !.granted = @ + n,
                       !.admitted = Append(@, t),
                       !.last = [p |-> p, refilled |-> refilled]]
        ELSE [l EXCEPT !.tokens = refilled, !.pc[p] = "sleeping",
                       !.slept_at = t, !.needed = n - refilled]

\* one pass of the while loop of acquire, run by the lock's holder p at time
\* t: refill, then either deduct, release the lock and return, or sleep
\* (tokens - self.tokens) / rate with the lock held
acquire_loop(l, p, t) ==
    LET refilled == Min(l.burst, l.tokens + (t - l.last_update) * l.rate)
        n == l.want[p]
    IN  IF refilled >= n
        THEN [l EXCEPT !.tokens = refilled - n, !.last_update = t, !.holder = FREE,
                       !.pc[p] = "done", !.granted = @ + n,
                       !.admitted = Append(@, t),
                       !.last = [p |-> p, refilled |-> refilled]]
        ELSE [l EXCEPT !.tokens = refilled, !.last_update = t, !.pc[p] = "sleeping",
                       !.slept_at = t, !.needed = n - refilled]

LimiterInit ==
    /\ FrontierInit
    /\ BreakerInit
    /\ RunInit
    /\ retry = NoRetry
    /\ backoff = [pc |-> "idle"]
    /\ limiter \in {NewLimiter(rate, burst, want, 0) :
                        rate \in {1, 2}, burst \in {1, 2}, want \in [Acquirers -> {1, 2}]}
    /\ LinkInit
    /\ SaveIdle
    /\ ResolverIdle
    /\ ThrottleIdle

\* acquire(): async with self._lock, entered at once when the lock is free
\* and nobody waits for it, queued otherwise
LimiterAcquire(p) ==
    /\ limiter.pc[p] = "idle"
    /\ limiter' = IF limiter.holder = FREE /\ limiter.waiters = <<>>
                  THEN acquire_loop([limiter EXCEPT !.holder = p], p, now)
                  ELSE [limiter EXCEPT !.waiters = Append(@, p), !.pc[p] = "waiting"]
    /\ UNCHANGED now

\* the released lock goes to its first waiter
LimiterLocked(p) ==
    /\ limiter.pc[p] = "waiting"
    /\ limiter.holder = FREE
    /\ Head(limiter.waiters) = p
    /\ limiter' = acquire_loop([limiter EXCEPT !.holder = p, !.waiters = Tail(@)], p, now)
    /\ UNCHANGED now

\* asyncio.sleep(wait_time) is over: the next pass of the loop
LimiterWake(p) ==
    /\ limiter.pc[p] = "sleeping"
    /\ (now - limiter.slept_at) * limiter.rate >= limiter.needed
    /\ limiter' = acquire_loop(limiter, p, now)
    /\ UNCHANGED now

\* time.monotonic() advances
LimiterTick ==
    /\ now < MaxTime
    /\ now' = now + 1
    /\ UNCHANGED limiter

LimiterNext ==
    \/ \E p \in Acquirers : LimiterAcquire(p) /\ UNCHANGED <<fvars, rvars, retry, backoff, lvars, svars, cb, cb_call, cb_ret, streak>>
    \/ \E p \in Acquirers : LimiterLocked(p) /\ UNCHANGED <<fvars, rvars, retry, backoff, lvars, svars, cb, cb_call, cb_ret, streak>>
    \/ \E p \in Acquirers : LimiterWake(p) /\ UNCHANGED <<fvars, rvars, retry, backoff, lvars, svars, cb, cb_call, cb_ret, streak>>
    \/ LimiterTick /\ UNCHANGED <<fvars, rvars, retry, backoff, lvars, svars, cb, cb_call, cb_ret, streak>>

SpecLimiter == LimiterInit /\ [][LimiterNext]_vars

(***************************************************************************)
(* Claims on the frontier                                                  *)
(***************************************************************************)
WasBefore(statuses) == {u \in URLs : before_reset[u] \in statuses}

\* C3 as stated: resetInProgress() followed by pendingPages() returns exactly
\* the URLs that were pending or in_progress before the reset.
C3_PendingAfterResetAsStated ==
    call.op = "reset_in_progress;get_pending_pages"
        => UrlsOf(ret) = WasBefore({PENDING, IN_PROGRESS})

\* C3 amended: resetInProgress() followed by pendingPages() returns exactly the
\* URLs that were pending, in_progress or failed before the reset, each once,
\* and never a URL that was completed or skipped.
C3_PendingAfterReset ==
    call.op = "reset_in_progress;get_pending_pages"
        => /\ UrlsOf(ret) = WasBefore({PENDING, IN_PROGRESS, FAILED})
           /\ UrlsOf(ret) \cap WasBefore({COMPLETED, SKIPPED}) = {}
           /\ Len(ret) = Cardinality(UrlsOf(ret))

\* a frontier with an in_progress record and a failed record was reset and
\* then listed
C3_Witness ==
    /\ call.op = "reset_in_progress;get_pending_pages"
    /\ \E u, v \in URLs : before_reset[u] = IN_PROGRESS /\ before_reset[v] = FAILED
    /\ Len(ret) = 2

NoDuplicateUrl(P) == \A i, j \in DOMAIN P : P[i].url = P[j].url => i = j

\* C4: addPage is idempotent: there is one record per URL, its crawl_depth and
\* parent_url are those of the first addPage call for the URL whatever calls
\* followed, and an addPage on a known URL changes no field of any record.
C4_AddPageIdempotent ==
    /\ NoDuplicateUrl(pages)
    /\ \A u \in URLs :
          /\ HasUrl(pages, u) <=> first_add[u].known
          /\ HasUrl(pages, u) =>
                /\ RowOf(pages, u).crawl_depth = first_add[u].crawl_depth
                /\ RowOf(pages, u).parent_url = first_add[u].parent_url
    /\ (call.op = "add_page" /\ HasUrl(before_add, call.url)) => pages = before_add

\* addPage was called on a completed URL with another depth and parent than
\* the first call's
C4_Witness ==
    /\ call.op = "add_page"
    /\ HasUrl(pages, call.url)
    /\ RowOf(pages, call.url).status = COMPLETED
    /\ call.args.crawl_depth # first_add[call.url].crawl_depth
    /\ call.args.parent_url # first_add[call.url].parent_url

(***************************************************************************)
(* Claims on the circuit breaker                                           *)
(***************************************************************************)
\* C8: counted from closed, the breaker is open right after the threshold-th
\* consecutive recordFailure() and closed after fewer; canAttempt() on an open
\* breaker returns true and makes it half-open once more than recovery_timeout
\* has passed since the last failure, and returns false before; recordSuccess()
\* in half-open closes it with failure_count = 0; recordFailure() in half-open
\* opens it again and restarts the clock.
C8_BreakerTransitions ==
    /\ streak < FailureThreshold => cb.state = CLOSED
    /\ (cb_call.op = "record_failure" /\ streak >= FailureThreshold) => cb.state = OPEN
    /\ (cb_call.op = "can_attempt" /\ cb_call.from = OPEN) =>
          IF cb.last_failure_time # NEVER /\ now - cb.last_failure_time > RecoveryTimeout
          THEN cb_ret /\ cb.state = HALF_OPEN
          ELSE ~cb_ret /\ cb.state = OPEN
    /\ (cb_call.op = "record_success" /\ cb_call.from = HALF_OPEN) =>
          cb.state = CLOSED /\ cb.failure_count = 0
    /\ (cb_call.op = "record_failure" /\ cb_call.from = HALF_OPEN) =>
          cb.state = OPEN /\ cb.last_failure_time = now

\* a failed probe: recordFailure() found the breaker half-open, after the
\* timeout had run out on a breaker opened by FailureThreshold failures
C8_Witness ==
    /\ cb_call.op = "record_failure"
    /\ cb_call.from = HALF_OPEN
    /\ cb.state = OPEN
    /\ cb.last_failure_time > RecoveryTimeout
    /\ streak = FailureThreshold + 1

\* C9 as stated: a canAttempt() call made when the breaker is already half-open
\* (the window was opened by an earlier canAttempt() that returned true) returns
\* false.
C9_SingleProbeAsStated ==
    (cb_call.op = "can_attempt" /\ cb_call.from = HALF_OPEN) => ~cb_ret

(***************************************************************************)
(* Claims on the run                                                       *)
(***************************************************************************)
\* a worker claims u (in_progress) in this step
ClaimStep(u) == tasks[u].pc = "info" /\ tasks'[u].pc = "claimed"

\* a worker's request for u comes back in this step
FetchStep(u) ==
    tasks[u].pc = "claimed" /\ tasks'[u].pc \in {"content", "duplicate", "timeout", "error"}

\* run() enters a phase after the scrape phase in this step
LaterPhaseStarts ==
    /\ main' # main
    /\ main' \in {"images", "retry", "retry_wait", "index", "links", "lint", "complete"}

\* C1 as stated: a claim issued on a URL whose record is in_progress, completed
\* or skipped is rejected and leaves the table unchanged.
C1_ClaimRejectedAsStated ==
    [][\A u \in URLs :
          (ClaimStep(u) /\ StatusOf(pages, u) \in {IN_PROGRESS, COMPLETED, SKIPPED})
              => pages' = pages]_vars

\* C2: in a resumed run a URL that the previous run completed is never claimed
\* or requested again, no worker is started for it, and its record stays
\* completed with the same file_path.
C2_CompletedNotRedone ==
    resume =>
        \A u \in URLs :
            StatusOf(pages0, u) = COMPLETED =>
                /\ u \notin touched
                /\ tasks[u].pc = "idle"
                /\ StatusOf(pages, u) = COMPLETED
                /\ RowOf(pages, u).file_path = RowOf(pages0, u).file_path

\* a resumed run ended after a page redirected to a URL completed by the
\* previous run and was completed by reference to its file
C2_Witness ==
    /\ resume
    /\ main = "exit_ok"
    /\ \E u, v \in URLs :
          /\ u # v
          /\ StatusOf(pages0, u) = COMPLETED
          /\ v \in touched
          /\ StatusOf(pages, v) = COMPLETED
          /\ RowOf(pages, v).file_path = RowOf(pages0, u).file_path

\* C5 as stated: the frontier left by a run that was cancelled while page
\* workers were in flight has no record in in_progress.
C5_NoInProgressAfterCancelAsStated ==
    (main = "exit_cancelled" /\ \E u \in URLs : tasks[u].pc = "cancelled")
        => \A i \in DOMAIN pages : pages[i].status # IN_PROGRESS

\* C6 as stated: once failed_pages_count has reached max_consecutive_failures no
\* page is claimed or fetched and no later phase starts.
C6_AbortAtCeilingAsStated ==
    [][failed_pages_count >= MaxConsecutiveFailures =>
          /\ \A u \in URLs : ~ClaimStep(u) /\ ~FetchStep(u)
          /\ ~LaterPhaseStarts]_vars

\* C7 as stated: once the periodic check has found the runtime limit reached
\* and raised, no page is claimed and no later phase starts.
C7_AbortAtRuntimeLimitAsStated ==
    [][health = "raised" =>
          /\ \A u \in URLs : ~ClaimStep(u)
          /\ ~LaterPhaseStarts]_vars

\* C10 as stated: once the breaker has opened during the phase, no worker
\* claims a page (starts a fetch attempt) before recovery_timeout has elapsed
\* since the last recorded failure.
C10_NoAttemptWhileCoolingAsStated ==
    [][(/\ cb_opened
        /\ cb.last_failure_time # NEVER
        /\ now - cb.last_failure_time < RecoveryTimeout)
          => \A u \in Site : ~ClaimStep(u)]_vars

\* a worker's can_attempt() is refused in this step: scrape_single_page returns
\* from the breaker check
RefusedStep(u) == tasks[u].pc = "info" /\ tasks'[u].pc = "done"

\* C11: when canAttempt() is false the page is marked failed with the message
\* "Circuit breaker open" and the worker returns: the URL is not claimed, no
\* request is made for it (the rate limiter is acquired only on the way to the
\* request), and the breaker and the consecutive-failure counter are unchanged.
C11_RefusalCountsNothing ==
    [][\A u \in Site :
          RefusedStep(u) =>
              /\ ~can_attempt(cb, now).ok
              /\ StatusOf(pages', u) = FAILED
              /\ RowOf(pages', u).error_message = "Circuit breaker open"
              /\ \A v \in Site \ {u} : RowOf(pages', v) = RowOf(pages, v)
              /\ touched' = touched
              /\ cb' = cb
              /\ failed_pages_count' = failed_pages_count
              /\ pages_scraped' = pages_scraped]_vars

\* a worker was refused by the open breaker and its page is failed with the
\* breaker's message, while the breaker still holds FailureThreshold failures
C11_Witness ==
    /\ cb.state = OPEN
    /\ cb.failure_count = FailureThreshold
    /\ failed_pages_count = FailureThreshold
    /\ \E u \in Site :
          /\ tasks[u].pc = "done"
          /\ u \notin touched
          /\ StatusOf(pages, u) = FAILED
          /\ RowOf(pages, u).error_message = "Circuit breaker open"

(***************************************************************************)
(* Claims on retry_async and calculate_backoff                             *)
(***************************************************************************)
AllRetryable(r) == \A i \in DOMAIN r.failures : r.failures[i] \in r.retry_on

\* C12: retry_async invokes func at most max_attempts times; it stops at the
\* first success and returns that result; when max_attempts attempts all raise
\* retryable failures it re-raises the failure of the last attempt; it has
\* slept once between attempts and not after the last.
C12_RetryAtMostMaxAttempts ==
    /\ retry.pc # "idle" => retry.calls <= retry.config.max_attempts
    /\ retry.pc = "returned" =>
          /\ retry.outcome = [kind |-> "value", call |-> retry.calls]
          /\ Len(retry.failures) = retry.calls - 1
          /\ Len(retry.sleeps) = retry.calls - 1
    /\ (/\ retry.pc = "raised"
        /\ retry.calls = retry.config.max_attempts
        /\ Len(retry.failures) = retry.calls
        /\ AllRetryable(retry)) =>
          /\ retry.calls >= 1 =>
                retry.outcome = [kind |-> retry.failures[retry.calls], call |-> retry.calls]
          /\ retry.calls >= 1 => Len(retry.sleeps) = retry.calls - 1

\* three attempts failed with retryable failures of different kinds, and the
\* last one was raised after two sleeps
C12_Witness ==
    /\ retry.pc = "raised"
    /\ retry.config.max_attempts = 3
    /\ retry.calls = 3
    /\ retry.failures = <<"ValueError", "ValueError", "TypeError">>
    /\ retry.outcome = [kind |-> "TypeError", call |-> 3]
    /\ Len(retry.sleeps) = 2

\* C13: a failure of a kind not in retry_on propagates at once: it is the
\* failure raised, nothing was slept after it, and func is not invoked again
\* (every failure before the last one was retryable), even with attempts left.
C13_OtherFailuresPropagate ==
    /\ retry.pc # "idle" =>
          \A i \in DOMAIN retry.failures :
              i < Len(retry.failures) => retry.failures[i] \in retry.retry_on
    /\ (/\ retry.pc # "idle"
        /\ retry.failures # <<>>
        /\ retry.failures[Len(retry.failures)] \notin retry.retry_on) =>
          /\ retry.pc = "raised"
          /\ retry.outcome = [kind |-> retry.failures[retry.calls], call |-> retry.calls]
          /\ Len(retry.sleeps) = retry.calls - 1

\* the second attempt of three raised a TypeError with retry_on = (ValueError,)
C13_Witness ==
    /\ retry.pc = "raised"
    /\ retry.retry_on = {"ValueError"}
    /\ retry.config.max_attempts = 3
    /\ retry.calls = 2
    /\ retry.failures = <<"ValueError", "TypeError">>
    /\ retry.outcome = [kind |-> "TypeError", call |-> 2]
    /\ Len(retry.sleeps) = 1

\* base to the power e, as a number
RECURSIVE Power(_, _)
Power(base, e) == IF e = 0 THEN 1 ELSE base * Power(base, e - 1)

\* C14 as stated: with jitter disabled calculate_backoff(n) is
\* min(max_delay, initial_delay * base^(n-1)) for every n >= 1, never above
\* max_delay and never below calculate_backoff(n-1).
C14_BackoffFormulaAsStated ==
    (backoff.pc = "called" /\ ~backoff.config.jitter) =>
        \A n \in DOMAIN backoff.delays :
            /\ backoff.delays[n] =
                  Min(backoff.config.max_delay,
                      backoff.config.initial_delay
                          * Power(backoff.config.exponential_base, n - 1))
            /\ backoff.delays[n] <= backoff.config.max_delay
            /\ n > 1 => backoff.delays[n] >= backoff.delays[n - 1]

\* the same for the attempts whose power is a finite float
C14_BackoffFormulaInRange ==
    (backoff.pc = "called" /\ ~backoff.config.jitter) =>
        \A n \in DOMAIN backoff.delays :
            Power(backoff.config.exponential_base, n - 1) <= FloatMax =>
                /\ backoff.delays[n] =
                      Min(backoff.config.max_delay,
                          backoff.config.initial_delay
                              * Power(backoff.config.exponential_base, n - 1))
                /\ backoff.delays[n] <= backoff.config.max_delay
                /\ n > 1 => backoff.delays[n] >= backoff.delays[n - 1]

(***************************************************************************)
(* Claims on the RateLimiter                                               *)
(***************************************************************************)
\* C15: for any concurrent acquire calls the token accounting is serialized:
\* the token count stays within [0, burst]; a returning acquire(n) deducts
\* exactly n tokens that were there; the tokens granted up to time t never
\* exceed burst + rate * t; at most one coroutine is inside the loop, and with
\* burst = 1 and rate = 1 successive admissions are at least one tick apart.
C15_TokenAccountingSerialized ==
    limiter.made =>
        /\ limiter.tokens >= 0
        /\ limiter.tokens <= limiter.burst
        /\ limiter.granted <= limiter.burst + limiter.rate * now
        /\ \A p \in Acquirers :
              limiter.pc[p] = "sleeping" => limiter.holder = p
        /\ limiter.admitted # <<>> =>
              /\ limiter.pc[limiter.last.p] = "done"
              /\ limiter.last.refilled <= limiter.burst
              /\ limiter.last.refilled >= limiter.want[limiter.last.p]
              /\ limiter.holder = FREE =>
                    limiter.tokens = limiter.last.refilled - limiter.want[limiter.last.p]
        /\ (limiter.burst = 1 /\ limiter.rate = 1) =>
              \A i \in DOMAIN limiter.admitted :
                  i > 1 => limiter.admitted[i] >= limiter.admitted[i - 1] + 1

\* RateLimiter(rate=1, burst=1) admitted three concurrent acquire() calls at
\* times 0, 1 and 2
C15_Witness ==
    /\ limiter.made
    /\ limiter.rate = 1
    /\ limiter.burst = 1
    /\ \A p \in Acquirers : limiter.pc[p] = "done"
    /\ limiter.admitted = <<0, 1, 2>>
    /\ limiter.granted = 3

(***************************************************************************)
(* C16: the order of get_pending_pages                                     *)
(***************************************************************************)
Position(P, url) == CHOOSE i \in DOMAIN P : P[i].url = url

PendingCallReturned == call.op \in {"get_pending_pages", "reset_in_progress;get_pending_pages"}

\* the rows returned are the pending and failed rows within max_depth, each once
ReturnsPendingWithinDepth ==
    /\ \A k \in DOMAIN ret :
          /\ HasUrl(pages, ret[k].url)
          /\ RowOf(pages, ret[k].url).status \in {PENDING, FAILED}
          /\ ret[k].crawl_depth = RowOf(pages, ret[k].url).crawl_depth
          /\ ret[k].retry_count = RowOf(pages, ret[k].url).retry_count
          /\ call.args.max_depth >= 0 => ret[k].crawl_depth <= call.args.max_depth
    /\ \A k, l \in DOMAIN ret : ret[k].url = ret[l].url => k = l
    /\ \A i \in DOMAIN pages :
          (/\ pages[i].status \in {PENDING, FAILED}
           /\ call.args.max_depth >= 0 => pages[i].crawl_depth <= call.args.max_depth)
          => \E k \in DOMAIN ret : ret[k].url = pages[i].url

\* ascending crawl_depth, then ascending retry_count
OrderedByDepthThenRetries ==
    \A k, l \in DOMAIN ret :
        k < l => \/ ret[k].crawl_depth < ret[l].crawl_depth
                 \/ /\ ret[k].crawl_depth = ret[l].crawl_depth
                    /\ ret[k].retry_count <= ret[l].retry_count

\* a never-tried page precedes a previously failed page at the same or a
\* greater depth
NeverTriedFirst ==
    \A k, l \in DOMAIN ret :
        (/\ ret[k].retry_count = 0
         /\ ret[l].retry_count > 0
         /\ ret[k].crawl_depth <= ret[l].crawl_depth) => k < l

\* C16 (as stated): pendingPages(maxDepth) returns only the records with
\* crawl_depth <= maxDepth, ordered by ascending crawl_depth, then ascending
\* retry_count, so that a never-tried page precedes a previously failed page
\* at the same or a greater depth, and two records with equal depth and
\* retry_count appear in the order they were inserted.
C16_PendingOrderAsStated ==
    PendingCallReturned =>
        /\ ReturnsPendingWithinDepth
        /\ OrderedByDepthThenRetries
        /\ NeverTriedFirst
        /\ \A k, l \in DOMAIN ret :
              (/\ k < l
               /\ ret[k].crawl_depth = ret[l].crawl_depth
               /\ ret[k].retry_count = ret[l].retry_count)
              => Position(pages, ret[k].url) < Position(pages, ret[l].url)

\* what holds of the order: the filter, the two leading keys, and insertion
\* order between records of equal depth and retry_count that were inserted
\* in different seconds or have the same status
C16_PendingOrderByKeys ==
    PendingCallReturned =>
        /\ ReturnsPendingWithinDepth
        /\ OrderedByDepthThenRetries
        /\ NeverTriedFirst
        /\ \A k, l \in DOMAIN ret :
              (/\ k < l
               /\ ret[k].crawl_depth = ret[l].crawl_depth
               /\ ret[k].retry_count = ret[l].retry_count
               /\ \/ RowOf(pages, ret[k].url).created_at # RowOf(pages, ret[l].url).created_at
                  \/ RowOf(pages, ret[k].url).status = RowOf(pages, ret[l].url).status)
              => Position(pages, ret[k].url) < Position(pages, ret[l].url)

(***************************************************************************)
(* SpecFollow: LinkResolver._follow_redirects over every redirect map.     *)
(* A URL is its text up to the trailing slashes and their number:          *)
(* rstrip("/") removes them all, + "/" adds one.                           *)
(***************************************************************************)
\* redirects[...] entries in a map
MaxRedirects == 3

PageNames == {"A", "B", "C"}

LinkURLs == [name : PageNames, slashes : {0, 1}]

rstrip(u) == [u EXCEPT !.slashes = 0]

with_slash(u) == [u EXCEPT !.slashes = @ + 1]

endswith_slash(u) == u.slashes > 0

\* RedirectHandler.redirects: a dict from original URL to final URL
RedirectMaps ==
    UNION {[D -> LinkURLs] : D \in {E \in SUBSET LinkURLs : Cardinality(E) <= MaxRedirects}}

\* the three lookups: the URL itself, with a slash added, with its slashes removed
redirect_found(redirects, current_url) ==
    \/ current_url \in DOMAIN redirects
    \/ with_slash(current_url) \in DOMAIN redirects
    \/ endswith_slash(current_url) /\ rstrip(current_url) \in DOMAIN redirects

next_url(redirects, current_url) ==
    IF current_url \in DOMAIN redirects THEN redirects[current_url]
    ELSE IF with_slash(current_url) \in DOMAIN redirects THEN redirects[with_slash(current_url)]
    ELSE redirects[rstrip(current_url)]

\* one pass of the loop that never looks at seen
follow_step_unseen(f) ==
    IF ~redirect_found(f.redirects, f.current_url)
    THEN [f EXCEPT !.pc = "returned"]
    ELSE [f EXCEPT !.seen = @ \cup {f.current_url},
                   !.current_url = rstrip(next_url(f.redirects, f.current_url))]

\* one pass of the loop with current_url = next_url, not normalised
follow_step_as_written(f) ==
    IF ~redirect_found(f.redirects, f.current_url) \/ f.current_url \in f.seen
    THEN [f EXCEPT !.pc = "returned"]
    ELSE [f EXCEPT !.seen = @ \cup {f.current_url},
                   !.current_url = next_url(f.redirects, f.current_url)]

\* one pass of while True: break when no redirect is found or current_url
\* was seen, else seen.add(current_url); current_url = next_url.rstrip("/")
follow_step(f) ==
    IF ~redirect_found(f.redirects, f.current_url) \/ f.current_url \in f.seen
    THEN [f EXCEPT !.pc = "returned"]
    ELSE [f EXCEPT !.seen = @ \cup {f.current_url},
                   !.current_url = rstrip(next_url(f.redirects, f.current_url))]

\* _follow_redirects(url) entered with a redirect handler: current_url = url, seen = set()
FollowInit ==
    /\ FrontierInit
    /\ BreakerInit
    /\ RunInit
    /\ retry = NoRetry
    /\ backoff = [pc |-> "idle"]
    /\ limiter = [made |-> FALSE]
    /\ relpath = [pc |-> "idle"]
    /\ SaveIdle
    /\ ResolverIdle
    /\ ThrottleIdle
    /\ follow \in {[pc |-> "loop", redirects |-> m, url |-> u, current_url |-> u,
                     seen |-> {}] : m \in RedirectMaps, u \in LinkURLs}

FollowStep ==
    /\ follow.pc = "loop"
    /\ follow' = follow_step(follow)

FollowNext == FollowStep /\ UNCHANGED <<fvars, bvars, rvars, retry, backoff, limiter, relpath, svars>>

\* the loop has no await: once entered it runs to its return
SpecFollow == FollowInit /\ [][FollowNext]_vars /\ WF_vars(FollowNext)

(***************************************************************************)
(* SpecRelPath: LinkResolver._calculate_relative_path on pairs of output   *)
(* files. A path is the sequence of its segments and a segment the         *)
(* sequence of its pieces of text, ".md" being one piece, so that          *)
(* "docs/a/x.md" is << <<"docs">>, <<"a">>, <<"x", ".md">> >>.             *)
(***************************************************************************)
\* directories above an output file
MaxDirs == 2

MD == ".md"

\* names of directories and of documents: the file manager keeps the dots of
\* a title (_clean_for_filesystem), so a name may contain ".md"
SegmentNames == {<<"docs">>, <<"a">>, <<"b">>, <<"b", MD>>}

RECURSIVE DirsOfDepth(_)
DirsOfDepth(n) ==
    IF n = 0 THEN {<<>>}
    ELSE {Append(d, s) : d \in DirsOfDepth(n - 1), s \in SegmentNames}

Dirs == UNION {DirsOfDepth(n) : n \in 0..MaxDirs}

\* url_to_filepath: a directory and filename = name + ".md"
OutputFiles == {Append(d, Append(s, MD)) : d \in Dirs, s \in SegmentNames}

\* the pairs of paths the tests and the documentation give as examples
ExamplePairs ==
    {<< << <<"docs">>, <<"a">>, <<"x", MD>> >>, << <<"docs">>, <<"b">>, <<"y", MD>> >> >>,
     << << <<"docs">>, <<"a">>, <<"x", MD>> >>, << <<"docs">>, <<"a">>, <<"y", MD>> >> >>,
     << << <<"docs">>, <<"a">>, <<"b">>, <<"c">>, <<"x", MD>> >>, << <<"docs">>, <<"y", MD>> >> >>,
     << << <<"docs">>, <<"a">>, <<"x", MD>> >>, << <<"docs">>, <<"a">>, <<"sub">>, <<"y", MD>> >> >>}

NotMD(piece) == piece # MD

NonEmpty(segment) == segment # <<>>

\* Path(path.replace(".md", "")): every ".md" of the string is removed, and
\* Path drops the segments left empty
replace_md(path) ==
    SelectSeq([i \in DOMAIN path |-> SelectSeq(path[i], NotMD)], NonEmpty)

\* Path.parent (of a path without directory: ".", no segments)
parent(path) == IF path = <<>> THEN <<>> ELSE SubSeq(path, 1, Len(path) - 1)

IsPrefix(p, q) == Len(p) <= Len(q) /\ SubSeq(q, 1, Len(p)) = p

\* the segments ".." and ".", as Path writes them
UP == <<"..">>
DOT == <<".">>

\* the number of leading segments two paths share
RECURSIVE CommonParts(_, _)
CommonParts(p, q) ==
    IF p = <<>> \/ q = <<>> \/ Head(p) # Head(q) THEN 0
    ELSE 1 + CommonParts(Tail(p), Tail(q))

\* _calculate_relative_path: to_path_obj.name in the same directory,
\* to_path_obj.relative_to(from_dir) below it ("." when nothing is left),
\* else ".." for every segment of from_dir past the common prefix and then
\* the rest of to_path
calculate_relative_path(from_path, to_path) ==
    LET from_path_obj == replace_md(from_path)
        to_path_obj == replace_md(to_path)
        from_dir == parent(from_path_obj)
    IN  IF from_dir = parent(to_path_obj) /\ to_path_obj # <<>>
        THEN <<to_path_obj[Len(to_path_obj)]>>
        ELSE IF IsPrefix(from_dir, to_path_obj)
        THEN IF Len(from_dir) = Len(to_path_obj) THEN <<DOT>>
             ELSE SubSeq(to_path_obj, Len(from_dir) + 1, Len(to_path_obj))
        ELSE LET common_parts == CommonParts(from_dir, to_path_obj)
                 ups == Len(from_dir) - common_parts
             IN  [i \in 1..ups |-> UP]
                     \o SubSeq(to_path_obj, common_parts + 1, Len(to_path_obj))

\* _calculate_relative_path(from_path, to_path) called for two output files
RelPathInit ==
    /\ FrontierInit
    /\ BreakerInit
    /\ RunInit
    /\ retry = NoRetry
    /\ backoff = [pc |-> "idle"]
    /\ limiter = [made |-> FALSE]
    /\ follow = [pc |-> "idle"]
    /\ SaveIdle
    /\ ResolverIdle
    /\ ThrottleIdle
    /\ relpath \in {[pc |-> "called", from_path |-> p[1], to_path |-> p[2], result |-> <<>>] :
                      p \in (OutputFiles \X OutputFiles) \cup ExamplePairs}

CalculateRelativePath ==
    /\ relpath.pc = "called"
    /\ relpath' = [relpath EXCEPT
                      !.pc = "returned",
                      !.result = calculate_relative_path(relpath.from_path, relpath.to_path)]

RelPathNext ==
    CalculateRelativePath /\ UNCHANGED <<fvars, bvars, rvars, retry, backoff, limiter, follow, svars>>

SpecRelPath == RelPathInit /\ [][RelPathNext]_vars

(***************************************************************************)
(* C17: _follow_redirects terminates                                       *)
(***************************************************************************)
\* the map A -> B, B -> A (each entry written with or without a trailing
\* slash) and the call _follow_redirects(A)
FollowsTwoCycle ==
    /\ follow.pc # "idle"
    /\ \E b \in LinkURLs :
          /\ b.name # follow.url.name
          /\ DOMAIN follow.redirects = {follow.url, b}
          /\ rstrip(follow.redirects[follow.url]) = rstrip(b)
          /\ rstrip(follow.redirects[b]) = rstrip(follow.url)

\* C17 (as stated): for the map A -> B, B -> A, followRedirects(A) returns A
\* or B, the URLs as they are written in the map.
C17_ReturnsAOrBAsStated ==
    (follow.pc = "returned" /\ FollowsTwoCycle)
        => follow.current_url \in DOMAIN follow.redirects

\* C17: followRedirects(url) returns for every redirect map, with cycles,
\* self-redirects and entries that differ only by a trailing slash; for the
\* map A -> B, B -> A, followRedirects(A) returns A or B with its trailing
\* slash removed.
C17_FollowRedirectsTerminates ==
    /\ <>(follow.pc = "returned")
    /\ []((follow.pc = "returned" /\ FollowsTwoCycle)
            => \E k \in DOMAIN follow.redirects : follow.current_url = rstrip(k))

\* the call on a two-cycle written with trailing slashes has returned after
\* finding current_url in seen
C17_Witness ==
    /\ follow.pc = "returned"
    /\ FollowsTwoCycle
    /\ follow.url.slashes = 1
    /\ follow.current_url \in follow.seen
    /\ redirect_found(follow.redirects, follow.current_url)

(***************************************************************************)
(* C18: a page that redirects to a completed page is completed by          *)
(* reference                                                               *)
(***************************************************************************)
\* the fetch of u ends on tasks'[u].final, a page other than u whose record
\* is completed, and returns the file_path of that record
RedirectedToCompletedStep(u) == tasks[u].pc = "claimed" /\ tasks'[u].pc = "duplicate"

\* the worker of u, whose fetch ended on the completed page tasks[u].final,
\* runs scrape_single_page to its record update, the record of that page
\* still holding the file_path the fetch read
ReferStep(u) ==
    /\ tasks[u].pc = "duplicate"
    /\ tasks'[u].pc = "referred"
    /\ RowOf(pages, tasks[u].final).file_path = tasks[u].file

strip_extension(path) ==
    LET file == path[Len(path)]
    IN  IF file # <<>> /\ file[Len(file)] = MD
        THEN [path EXCEPT ![Len(path)] = SubSeq(file, 1, Len(file) - 1)]
        ELSE path

\* the rule as the documentation words it: strip the leading segments shared
\* by the directory of from and by to, one ".." for every segment of the
\* directory that remains, then the remaining segments of to without .md
StatedRelativePath(from_path, to_path) ==
    LET dir == parent(from_path)
        target == strip_extension(to_path)
        shared == CommonParts(dir, target)
    IN  [i \in 1..(Len(dir) - shared) |-> UP] \o SubSeq(target, shared + 1, Len(target))

\* no name in the path contains ".md", the extension of the file apart
PlainNames(path) == replace_md(path) = strip_extension(path)

RelPathReturned == relpath.pc = "returned"

\* the four examples: "../b/y", "y", "../../../y" and "sub/y"
ExamplesHold ==
    /\ calculate_relative_path(<< <<"docs">>, <<"a">>, <<"x", MD>> >>,
                               << <<"docs">>, <<"b">>, <<"y", MD>> >>)
           = <<UP, <<"b">>, <<"y">> >>
    /\ calculate_relative_path(<< <<"docs">>, <<"a">>, <<"x", MD>> >>,
                               << <<"docs">>, <<"a">>, <<"y", MD>> >>)
           = << <<"y">> >>
    /\ calculate_relative_path(<< <<"docs">>, <<"a">>, <<"b">>, <<"c">>, <<"x", MD>> >>,
                               << <<"docs">>, <<"y", MD>> >>)
           = <<UP, UP, UP, <<"y">> >>
    /\ calculate_relative_path(<< <<"docs">>, <<"a">>, <<"x", MD>> >>,
                               << <<"docs">>, <<"a">>, <<"sub">>, <<"y", MD>> >>)
           = << <<"sub">>, <<"y">> >>

\* C19 (as stated): relativePath(from, to) strips the leading path segments
\* shared by the directory of from and by to, emits one ".." per remaining
\* segment of that directory, then the remaining segments of to without the
\* .md extension; relativePath("docs/a/x.md", "docs/b/y.md") = "../b/y",
\* relativePath("docs/a/x.md", "docs/a/y.md") = "y",
\* relativePath("docs/a/b/c/x.md", "docs/y.md") = "../../../y", and a target
\* in a subdirectory of the directory of from yields "sub/y".
C19_RelativePathAsStated ==
    RelPathReturned =>
        /\ relpath.result = StatedRelativePath(relpath.from_path, relpath.to_path)
        /\ ExamplesHold

\* what holds of the rule: the examples, and the rule itself for paths
\* whose names do not contain ".md" and a target that is not named like the
\* directory of from
C19_RelativePathOnPlainNames ==
    RelPathReturned =>
        /\ ExamplesHold
        /\ (/\ PlainNames(relpath.from_path)
            /\ PlainNames(relpath.to_path)
            /\ strip_extension(relpath.to_path) # parent(relpath.from_path))
           => relpath.result = StatedRelativePath(relpath.from_path, relpath.to_path)

\* a path with every ".." collapsed against the segment before it
RECURSIVE Collapse(_, _)
Collapse(done, rest) ==
    IF rest = <<>> THEN done
    ELSE IF Head(rest) = UP /\ done # <<>> /\ done[Len(done)] # UP
    THEN Collapse(SubSeq(done, 1, Len(done) - 1), Tail(rest))
    ELSE Collapse(Append(done, Head(rest)), Tail(rest))

\* the directory of a file joined with the relative path from it to another file
Resolve(from_path, to_path) ==
    Collapse(<<>>, parent(from_path) \o calculate_relative_path(from_path, to_path))

\* C20 (as stated): for any two output files A and B, joining the directory
\* of A with relativePath(A, B) and collapsing each ".." against the
\* preceding segment yields the path of B without extension, and joining
\* the directory of B with relativePath(B, A) yields the path of A without
\* extension.
C20_RoundTripAsStated ==
    RelPathReturned =>
        /\ Collapse(<<>>, parent(relpath.from_path) \o relpath.result)
              = strip_extension(relpath.to_path)
        /\ Resolve(relpath.to_path, relpath.from_path) = strip_extension(relpath.from_path)

\* what holds of the round trip: it is exact for two files whose names do
\* not contain ".md" and of which neither is named like the directory of
\* the other
C20_RoundTripOnPlainNames ==
    (/\ RelPathReturned
     /\ PlainNames(relpath.from_path)
     /\ PlainNames(relpath.to_path)
     /\ strip_extension(relpath.to_path) # parent(relpath.from_path)
     /\ strip_extension(relpath.from_path) # parent(relpath.to_path))
    => /\ Collapse(<<>>, parent(relpath.from_path) \o relpath.result)
             = strip_extension(relpath.to_path)
       /\ Resolve(relpath.to_path, relpath.from_path) = strip_extension(relpath.from_path)

(***************************************************************************)
(* SpecRetryPhases: the scrape phase, the image phase and any number of    *)
(* retry phases of a fresh run on a site of three pages, for every         *)
(* max_retry_attempts the configuration accepts up to MaxRetryAttempts,    *)
(* against a site that never serves one of the pages                       *)
(***************************************************************************)
SmallSiteOrder == <<"a", "b", "c">>

\* the pages whose fetch fails whenever it is made
AlwaysFails == {"c"}

RetryPhasesInit ==
    /\ call = NoCall
    /\ ret = <<>>
    /\ before_reset = StatusMap(<<>>)
    /\ first_add = [u \in URLs |-> NeverAdded]
    /\ before_add = <<>>
    /\ BreakerInit
    /\ UtilInit
    /\ pages = discover_sitemap(clear_all(<<>>), SmallSiteOrder, 1)
    /\ pages0 = <<>>
    /\ resume = FALSE
    /\ dry_run = FALSE
    /\ max_retry_attempts \in 0..MaxRetryAttempts
    /\ domain_restriction = "product"
    /\ workers = Workers
    /\ semaphore = Workers
    /\ main = "scrape_wait"
    /\ db_open = TRUE
    /\ tasks = [u \in UrlsOf(get_pending_pages(pages, MaxCrawlDepth)) |->
                    [NoTask EXCEPT !.pc = "queued"]]
    /\ health = "running"
    /\ failed_pages_count = 0
    /\ pages_scraped = 0
    /\ touched = {}
    /\ cb_opened = FALSE
    /\ url_to_filepath_map = [u \in DOMAIN tasks |-> NULL]
    /\ saved_files = {}

\* throttled_request(scrape_with_browser_and_extract) against that site: the
\* fetch of a page of AlwaysFails times out or raises and no page redirects
\* to one; with max_attempts = 0 retry_async calls nothing and raises
FetchFaulty(u) ==
    /\ Fetch(u)
    /\ u \in AlwaysFails => tasks'[u].pc \in {"timeout", "error"}
    /\ max_retry_attempts = 0 => tasks'[u].pc = "error"
    /\ tasks'[u].final \notin AlwaysFails

\* the retry phase is run once more (retry_failed_pages called again)
RetryAgain ==
    /\ main = "index"
    /\ main' = "retry"
    /\ UNCHANGED <<pages, cb, now, db_open, tasks, health, failed_pages_count,
                   pages_scraped, touched, cb_opened, run_config, others>>

RetryPhasesNext ==
    \/ GatherDone
    \/ DownloadImages
    \/ RetryFailedPages
    \/ RetryAgain
    \/ Elapse
    \/ \E u \in Site : RetryPage(u)
    \/ \E u \in Site : Begin(u)
    \/ \E u \in Site : Gate(u)
    \/ \E u \in Site : FetchFaulty(u)
    \/ \E u \in Site : Save(u)
    \/ \E u \in Site : Succeed(u)
    \/ \E u \in Site : Fail(u)
    \/ \E u \in Site : CountFailure(u)

SpecRetryPhases == RetryPhasesInit /\ [][RetryPhasesNext]_vars

(***************************************************************************)
(* C21: retry phases against an always-failing fetch                       *)
(***************************************************************************)
\* the retry phase has returned
RetryPhaseOver == main = "index"

\* retry_failed_pages has gathered a retry_page task for the URL
QueuedForRetry(u) == tasks[u].pc # "queued" /\ tasks'[u].pc = "queued"

\* C21 as stated: whatever max_retry_attempts is, no page's retry_count ever
\* exceeds it
C21_RetryCeilingAsStated ==
    \A i \in DOMAIN pages : pages[i].retry_count <= max_retry_attempts

\* C21 for max_retry_attempts >= 1: no retry_count exceeds max_retry_attempts,
\* and after each retry phase an always-failing page is failed, or skipped
\* when the page budget was met before a worker reached it
C21_RetryCeiling ==
    max_retry_attempts >= 1 =>
        /\ \A i \in DOMAIN pages : pages[i].retry_count <= max_retry_attempts
        /\ RetryPhaseOver =>
               \A u \in AlwaysFails :
                  \/ StatusOf(pages, u) = FAILED
                  \/ /\ StatusOf(pages, u) = SKIPPED
                     /\ MaxPages > 0
                     /\ pages_scraped >= MaxPages

\* C21, the retry phase: a retry task is gathered only for a page that is
\* failed with retry_count below max_retry_attempts, one task per page, and
\* only retry_failed_pages gathers tasks
C21_RetriesOnlyBelowCeiling ==
    [][\A u \in Site :
          QueuedForRetry(u) =>
              /\ main = "retry"
              /\ StatusOf(pages, u) = FAILED
              /\ RowOf(pages, u).retry_count < max_retry_attempts]_vars


(***************************************************************************)
(* C22: the order of the phases                                            *)
(***************************************************************************)
\* the phase run() is in: 1 discover, 2 scrape-pages, 3 download-images,
\* 4 retry-failed-pages, 5 generate-index, 6 resolve-links, 7 lint
PhaseOf(m) ==
    CASE m = "startup" -> 0
      [] m = "discover" -> 1
      [] m \in {"scrape", "scrape_wait"} -> 2
      [] m = "images" -> 3
      [] m \in {"retry", "retry_wait"} -> 4
      [] m = "index" -> 5
      [] m = "links" -> 6
      [] m = "lint" -> 7
      [] m = "complete" -> 8

\* a worker task that has been gathered and has not returned
Running(u) == tasks[u].pc \notin {"idle"} \cup Finished

\* C22: run() passes from each phase to the next one only, a worker acts only
\* in the scrape phase and in the retry phase, and a phase other than these
\* two is entered and run with no worker task of an earlier phase running
C22_PhasesInOrder ==
    [][/\ (main \in Crawling /\ main' \in Crawling /\ PhaseOf(main') # PhaseOf(main))
              => /\ PhaseOf(main') = PhaseOf(main) + 1
                 /\ \A u \in Site : ~Running(u)
       /\ (main' \in Crawling /\ main' \notin {"scrape_wait", "retry_wait"})
              => \A u \in DOMAIN tasks' : tasks'[u].pc \in {"idle"} \cup Finished
       /\ (\E u \in Site : tasks'[u] # tasks[u] /\ tasks[u].pc \notin {"idle"} \cup Finished
                                /\ tasks'[u].pc # "cancelled")
              => main \in {"scrape_wait", "retry_wait"}]_vars

\* the link phase is reached after workers of the scrape phase have saved a
\* page and workers of the retry phase have failed one again
C22_Witness ==
    /\ main = "links"
    /\ pages_scraped >= 1
    /\ \E i \in DOMAIN pages : pages[i].status = FAILED /\ pages[i].retry_count = 2

(***************************************************************************)
(* C23: the worker pools                                                   *)
(***************************************************************************)
\* the worker has claimed its page (status in_progress) and has not yet
\* written its terminal status
Processing(u) == tasks[u].pc \in {"claimed", "content", "duplicate", "timeout", "error"}

ProcessingCount == Cardinality({u \in Site : Processing(u)})

InProgressRows == Cardinality({i \in DOMAIN pages : pages[i].status = IN_PROGRESS})

\* max(1, workers // 2)
HalfWorkers == IF Workers \div 2 >= 1 THEN Workers \div 2 ELSE 1

\* C23: in the scrape phase at most Workers pages are between claim and
\* terminal status, in the retry phase at most max(1, Workers // 2), counted
\* by workers and counted by records in status in_progress
C23_PoolBounds ==
    /\ main = "scrape_wait" => ProcessingCount <= Workers /\ InProgressRows <= Workers
    /\ main = "retry_wait" => ProcessingCount <= HalfWorkers /\ InProgressRows <= HalfWorkers

\* the retry pool is full while another failed page waits for it
C23_Witness ==
    /\ main = "retry_wait"
    /\ ProcessingCount = HalfWorkers
    /\ InProgressRows = HalfWorkers
    /\ \E u \in Site : tasks[u].pc = "queued"

(***************************************************************************)
(* C24: the page budget                                                    *)
(***************************************************************************)
\* scrape_single_page returns at the page limit check: the record becomes
\* skipped and the worker is done without a claim or a fetch
SkippedAtLimit(u) ==
    /\ tasks[u].pc \in {"queued", "reset"}
    /\ tasks'[u].pc = "done"
    /\ StatusOf(pages', u) = SKIPPED
    /\ touched' = touched

\* C24 as stated: with MaxPages > 0 no more than MaxPages documents are
\* fetched and written in the run
C24_BudgetAsStated ==
    MaxPages > 0 => Cardinality(saved_files) <= MaxPages

\* C24, what holds: a worker that reaches its page once pages_scraped has
\* reached MaxPages marks it skipped without fetching it, and the workers
\* already past the check can take the run at most Workers - 1 documents over
\* the budget
C24_BudgetOvershootBounded ==
    MaxPages > 0 =>
        /\ Cardinality(saved_files) <= MaxPages + Workers - 1
        /\ pages_scraped <= MaxPages + Workers - 1

C24_SkippedOnceBudgetMet ==
    [][\A u \in Site :
          (MaxPages > 0 /\ pages_scraped >= MaxPages /\ tasks'[u] # tasks[u]
             /\ tasks[u].pc \in {"queued", "reset"} /\ main = "scrape_wait")
          => SkippedAtLimit(u)]_vars

(***************************************************************************)
(* SpecSave: FileSystemManager.save_content called by two workers, any     *)
(* number of times, with documents whose URLs map to the same file name    *)
(***************************************************************************)
\* the documents, as content.strip() leaves them
Docs == {"x", "y", "z"}

exists(F, k) == F[k] # NULL

\* the loop "while file_path.exists() and counter < 100": the first name
\* with a suffix that is free, or the last name tried; ValueError("Too many
\* duplicates") at the limit is caught by the except clause around it and
\* the save goes on with that name
unique_name(F) ==
    IF \E k \in 1 .. (CounterLimit - 1) : ~exists(F, k)
    THEN CHOOSE k \in 1 .. (CounterLimit - 1) :
             ~exists(F, k) /\ \A j \in 1 .. (k - 1) : exists(F, j)
    ELSE CounterLimit - 1

SaveInit ==
    /\ FrontierInit
    /\ BreakerInit
    /\ RunInit
    /\ UtilInit

\* save_content up to its first await: file_path.exists() sends the call to
\* the comparison or straight to the temporary file
SaveContent(w) ==
    /\ saves[w].pc = "idle"
    /\ \E content \in Docs :
          saves' = [v \in Savers |->
                       IF v = w
                       THEN [pc |-> IF exists(files, 0) THEN "reading" ELSE "writing",
                             content |-> content, target |-> 0,
                             overlapped |-> \E o \in Savers \ {w} : saves[o].pc # "idle"]
                       ELSE IF saves[v].pc # "idle"
                       THEN [saves[v] EXCEPT !.overlapped = TRUE]
                       ELSE saves[v]]
    /\ UNCHANGED files

\* the existing file has been read: identical content returns its path,
\* different content picks the name to write
SaveCompare(w) ==
    /\ saves[w].pc = "reading"
    /\ saves' = [saves EXCEPT ![w] =
                    IF files[0] = saves[w].content
                    THEN [saves[w] EXCEPT !.pc = "returned"]
                    ELSE [saves[w] EXCEPT !.pc = "writing", !.target = unique_name(files)]]
    /\ UNCHANGED files

\* the temporary file has been written: temp_path.replace(file_path)
SaveReplace(w) ==
    /\ saves[w].pc = "writing"
    /\ files' = [files EXCEPT ![saves[w].target] = saves[w].content]
    /\ saves' = [saves EXCEPT ![w].pc = "returned"]

\* the caller has the returned path
SaveReturned(w) ==
    /\ saves[w].pc = "returned"
    /\ saves' = [saves EXCEPT ![w] = NoSave]
    /\ UNCHANGED files

SaveNext ==
    \/ \E w \in Savers : SaveContent(w) /\ UNCHANGED <<fvars, bvars, rvars, retry, backoff, limiter, lvars, fetching, resolver>>
    \/ \E w \in Savers : SaveCompare(w) /\ UNCHANGED <<fvars, bvars, rvars, retry, backoff, limiter, lvars, fetching, resolver>>
    \/ \E w \in Savers : SaveReplace(w) /\ UNCHANGED <<fvars, bvars, rvars, retry, backoff, limiter, lvars, fetching, resolver>>
    \/ \E w \in Savers : SaveReturned(w) /\ UNCHANGED <<fvars, bvars, rvars, retry, backoff, limiter, lvars, fetching, resolver>>

SpecSave == SaveInit /\ [][SaveNext]_vars

(***************************************************************************)
(* C25: the file writer never replaces a document by a different one       *)
(***************************************************************************)
\* no file that exists gets another content
NoFileReplaced == \A k \in FileNames : exists(files, k) => files'[k] = files[k]

\* a save_content call is alone when no other call has been in progress
\* since it began
Alone(w) == ~saves[w].overlapped /\ ~saves'[w].overlapped

\* C25 as stated: no step of any save, two workers saving concurrently
\* included, replaces an existing file by a different document, and a
\* document whose save has returned is in the output directory
C25_NeverReplacesAsStated ==
    [][/\ NoFileReplaced
       /\ \A w \in Savers :
             saves'[w].pc = "returned" => \E k \in FileNames : files'[k] = saves'[w].content]_vars

\* C25 for one save at a time and fewer than CounterLimit names taken:
\* identical content returns the existing path and writes nothing, different
\* content is written under the first free name with a suffix
C25_NeverReplacesWhenAlone ==
    [][\A w \in Savers :
          (Alone(w) /\ saves'[w] # saves[w] /\ ~exists(files, CounterLimit - 1)) =>
              /\ NoFileReplaced
              /\ (saves[w].pc = "reading" /\ files[0] = saves[w].content)
                    => saves'[w].pc = "returned" /\ saves'[w].target = 0
              /\ (saves[w].pc = "writing" /\ exists(files, 0))
                    => /\ saves[w].target >= 1
                       /\ files'[saves[w].target] = saves[w].content
                       /\ \A j \in 0 .. (saves[w].target - 1) : exists(files, j)]_vars

(***************************************************************************)
(* C26: a completed record stays completed                                 *)
(***************************************************************************)
\* statistics.completed: SELECT COUNT(*) ... WHERE status = 'completed'
CompletedCount(P) == Cardinality({i \in DOMAIN P : P[i].status = COMPLETED})

\* C26 as stated: no step of any worker changes the status or the file_path
\* of a record that is completed, and the number of completed records never
\* decreases
C26_CompletedIsFinalAsStated ==
    [][/\ \A i \in DOMAIN pages :
             pages[i].status = COMPLETED =>
                 /\ pages'[i].status = COMPLETED
                 /\ pages'[i].file_path = pages[i].file_path
       /\ CompletedCount(pages') >= CompletedCount(pages)]_vars

(***************************************************************************)
(* C27: the failure path of scrape_single_page                             *)
(***************************************************************************)
\* the worker's fetch-and-extract call has failed and the worker moves on
HandlerStep(u) == tasks[u].pc \in {"timeout", "error"} /\ tasks'[u] # tasks[u]

\* the record is failed and the worker moves on to the failure accounting
AccountingStep(u) == tasks[u].pc \in {"timed_out", "excepted"} /\ tasks'[u] # tasks[u]

RECURSIVE FailedTimes(_, _, _)
FailedTimes(P, url, n) ==
    IF n = 0 THEN P
    ELSE FailedTimes(update_page_status(
                         update_page_status(reset_for_retry(P, url), url, IN_PROGRESS, NULL, NULL),
                         url, FAILED, NULL, "err"),
                     url, n - 1)

RECURSIVE FailedAll(_, _, _)
FailedAll(P, times, i) ==
    IF i > Len(SiteOrder) THEN P
    ELSE FailedAll(FailedTimes(add_page(P, SiteOrder[i], NULL, 0, NULL, PreviousRun),
                               SiteOrder[i], times[SiteOrder[i]]),
                   times, i + 1)

\* the previous run scraped and retried until retry_count reached
\* max_retry_attempts at the most
FailedFrontiers == {FailedAll(<<>>, times, 1) : times \in [URLs -> 0 .. MaxRetryAttempts]}

ResumeInit ==
    /\ call = NoCall
    /\ ret = <<>>
    /\ before_reset = StatusMap(<<>>)
    /\ first_add = [u \in URLs |-> NeverAdded]
    /\ before_add = <<>>
    /\ BreakerInit
    /\ UtilInit
    /\ pages \in FailedFrontiers
    /\ pages0 = pages
    /\ resume = TRUE
    /\ dry_run \in BOOLEAN
    /\ max_retry_attempts = MaxRetryAttempts
    /\ domain_restriction = "product"
    /\ workers = Workers
    /\ semaphore = NoSemaphore
    /\ main = "new"
    /\ db_open = FALSE
    /\ tasks = [u \in URLs |-> NoTask]
    /\ health = "none"
    /\ failed_pages_count = 0
    /\ pages_scraped = 0
    /\ touched = {}
    /\ cb_opened = FALSE
    /\ url_to_filepath_map = [u \in URLs |-> NULL]
    /\ saved_files = {}

SpecResume == ResumeInit /\ [][Next]_vars

(***************************************************************************)
(* C28: a failed page is retried a bounded number of times                 *)
(***************************************************************************)
\* the page of u has failed max_retry_attempts times or more
Exhausted(P, u) == RowOf(P, u).retry_count >= max_retry_attempts

\* C28 as stated: a page whose retry_count has reached max_retry_attempts is
\* not claimed and not fetched again, in this run or in a resumed one, and no
\* retry_count exceeds max_retry_attempts
C28_BoundedRetriesAsStated ==
    [][/\ \A u \in Site : (ClaimStep(u) \/ FetchStep(u)) => ~Exhausted(pages0, u)
       /\ \A i \in DOMAIN pages' : pages'[i].retry_count <= max_retry_attempts]_vars

\* C28, the retry phase alone: retry_failed_pages gathers no task for a page
\* whose retry_count has reached max_retry_attempts
C28_RetryPhaseSkipsExhausted ==
    [][\A u \in Site :
          (main = "retry" /\ QueuedForRetry(u)) =>
              /\ StatusOf(pages, u) = FAILED
              /\ ~Exhausted(pages, u)]_vars

(***************************************************************************)
(* SpecThrottle: the fetches of one worker that scrapes the pages of the   *)
(* site one after another, for every RetryConfig: rate_limiter.acquire(),  *)
(* then throttled_request(scrape_with_browser_and_extract)                 *)
(***************************************************************************)
ThrottleInit ==
    /\ FrontierInit
    /\ BreakerInit
    /\ RunInit
    /\ retry \in {NewRetry(config, ExceptionKinds) : config \in RetryConfigs}
    /\ backoff = [pc |-> "idle"]
    /\ limiter = [made |-> FALSE]
    /\ LinkInit
    /\ SaveIdle
    /\ ResolverIdle
    /\ fetching = [NoFetching EXCEPT !.pc = "claimed", !.page = 1]

\* scrape_single_page: await self.rate_limiter.acquire() returns
FetchAcquire ==
    /\ fetching.pc = "claimed"
    /\ fetching' = [fetching EXCEPT !.pc = "acquired", !.tokens = @ + 1, !.page_tokens = @ + 1]
    /\ UNCHANGED retry

\* throttled_request: await self.rate_limiter.acquire() returns, and
\* retry_async is entered
ThrottledAcquire ==
    /\ fetching.pc = "acquired"
    /\ fetching' = [fetching EXCEPT !.pc = "retrying", !.tokens = @ + 1, !.page_tokens = @ + 1]
    /\ UNCHANGED retry

\* retry_async inside throttled_request: its steps, the calls of the fetch
\* function counted
ThrottledStart ==
    /\ fetching.pc = "retrying"
    /\ RetryStart
    /\ UNCHANGED fetching

ThrottledCall ==
    /\ fetching.pc = "retrying"
    /\ RetryCall
    /\ fetching' = [fetching EXCEPT !.attempts = @ + 1]

ThrottledWake ==
    /\ fetching.pc = "retrying"
    /\ RetryWake
    /\ UNCHANGED fetching

\* throttled_request has returned or raised and the worker's next page is
\* claimed
NextPage ==
    /\ fetching.pc = "retrying"
    /\ retry.pc \in {"returned", "raised"}
    /\ fetching.page < Len(SiteOrder)
    /\ fetching' = [fetching EXCEPT !.pc = "claimed", !.page = @ + 1, !.page_tokens = 0]
    /\ retry' = NewRetry(retry.config, retry.retry_on)

ThrottleNext ==
    \/ FetchAcquire /\ UNCHANGED <<fvars, bvars, rvars, backoff, limiter, lvars, files, saves, resolver>>
    \/ ThrottledAcquire /\ UNCHANGED <<fvars, bvars, rvars, backoff, limiter, lvars, files, saves, resolver>>
    \/ ThrottledStart /\ UNCHANGED <<fvars, bvars, rvars, backoff, limiter, lvars, files, saves, resolver>>
    \/ ThrottledCall /\ UNCHANGED <<fvars, bvars, rvars, backoff, limiter, lvars, files, saves, resolver>>
    \/ ThrottledWake /\ UNCHANGED <<fvars, bvars, rvars, backoff, limiter, lvars, files, saves, resolver>>
    \/ NextPage /\ UNCHANGED <<fvars, bvars, rvars, backoff, limiter, lvars, files, saves, resolver>>

SpecThrottle == ThrottleInit /\ [][ThrottleNext]_vars

(***************************************************************************)
(* C29: tokens and fetch attempts                                          *)
(***************************************************************************)
\* C29 as stated: the fetch attempts started never outnumber the tokens
\* granted, and a page's first attempt has cost one token
C29_TokenPerAttemptAsStated ==
    /\ fetching.attempts <= fetching.tokens
    /\ retry.calls >= 1 => fetching.page_tokens = 1

\* C29, what holds: every scrape_single_page call is granted two tokens
\* before its first attempt and none for its repeated attempts, and it makes
\* at most max_attempts attempts
C29_TwoTokensPerPage ==
    /\ fetching.pc = "retrying" => fetching.page_tokens = 2
    /\ fetching.tokens = 2 * (fetching.page - 1) + fetching.page_tokens
    /\ retry.calls <= retry.config.max_attempts
    /\ fetching.attempts <= fetching.page * retry.config.max_attempts

(***************************************************************************)
(* SpecCrawl: a run with --resume on the state database of a previous run  *)
(* of the same configuration, which found page b through a link of page   *)
(* a; the pages link to anything, for every domain restriction mode        *)
(***************************************************************************)
\* the previous run added a from the sitemap and b as a link of a, and left
\* each of them pending, completed or failed
CrawledFrontiers ==
    LET found == add_page(add_page(<<>>, "a", NULL, 0, NULL, PreviousRun),
                          "b", NULL, 1, "a", PreviousRun)
        Left(P, url, kind) ==
            CASE kind = PENDING -> P
              [] kind = COMPLETED ->
                    update_page_status(update_page_status(P, url, IN_PROGRESS, NULL, NULL),
                                       url, COMPLETED, PathOf(url), NULL)
              [] kind = FAILED ->
                    update_page_status(update_page_status(P, url, IN_PROGRESS, NULL, NULL),
                                       url, FAILED, NULL, "err")
    IN  {Left(Left(found, "a", ka), "b", kb) :
            ka \in {PENDING, COMPLETED, FAILED}, kb \in {PENDING, FAILED}}

CrawlInit ==
    /\ call = NoCall
    /\ ret = <<>>
    /\ before_reset = StatusMap(<<>>)
    /\ first_add = [u \in URLs |-> NeverAdded]
    /\ before_add = <<>>
    /\ BreakerInit
    /\ UtilInit
    /\ pages \in CrawledFrontiers
    /\ pages0 = pages
    /\ resume = TRUE
    /\ dry_run = FALSE
    /\ max_retry_attempts = MaxRetryAttempts
    /\ domain_restriction \in DomainRestrictions
    /\ workers = Workers
    /\ semaphore = NoSemaphore
    /\ main = "new"
    /\ db_open = FALSE
    /\ tasks = [u \in URLs |-> NoTask]
    /\ health = "none"
    /\ failed_pages_count = 0
    /\ pages_scraped = 0
    /\ touched = {}
    /\ cb_opened = FALSE
    /\ url_to_filepath_map = [u \in URLs |-> NULL]
    /\ saved_files = {}

CrawlNext ==
    \/ RunStart
    \/ Startup
    \/ DiscoverPages
    \/ ScrapePages
    \/ GatherDone
    \/ DownloadImages
    \/ RetryFailedPages
    \/ LaterPhase
    \/ Finish
    \/ Elapse
    \/ \E u \in Site : RetryPage(u)
    \/ \E u \in Site : Begin(u)
    \/ \E u \in Site : Gate(u)
    \/ \E u \in Site : Fetch(u)
    \/ \E u \in Site : Save(u)
    \/ \E u \in Site : SucceedAnywhere(u)
    \/ \E u \in Site : Fail(u)
    \/ \E u \in Site : CountFailure(u)

SpecCrawl == CrawlInit /\ [][CrawlNext]_vars

(***************************************************************************)
(* C30: depth and domain of the records of link discovery                  *)
(***************************************************************************)
\* the domain restriction as the modes are described: off accepts every URL,
\* any-atlassian every URL of the host, product the URLs under base_url
Accepted(mode, url) ==
    CASE mode = "off" -> TRUE
      [] mode = "any-atlassian" -> Atlassian(url)
      [] mode = "product" -> Atlassian(url) /\ UnderBase(url)

\* the records this run has created
Created(P) == {i \in DOMAIN P : ~HasUrl(pages0, P[i].url)}

ScrapePhaseOver == main = "images"

\* a record scrape_pages would gather: pending, within the max crawl depth
EligiblePending(r) ==
    /\ r.status = PENDING
    /\ (MaxCrawlDepth > 0 => r.crawl_depth <= MaxCrawlDepth)

\* C31 as stated: once the scrape phase has ended without a fatal error, no
\* record is in_progress and, while the page budget is not used up, no record
\* within the max crawl depth is pending, the records enqueued by the pages of
\* this phase included
C31_FrontierDrainedAsStated ==
    (ScrapePhaseOver /\ health # "raised") =>
        \A i \in DOMAIN pages :
            /\ pages[i].status # IN_PROGRESS
            /\ (MaxPages = 0 \/ pages_scraped < MaxPages) => ~EligiblePending(pages[i])

\* what the single get_pending_pages call of scrape_pages gives: when gather
\* returns, every page that was gathered has left pending and in_progress
C31_GatheredPagesSettled ==
    [][(main = "scrape_wait" /\ main' = "images") =>
          \A u \in Site :
              tasks[u].pc # "idle" => StatusOf(pages', u) \notin {PENDING, IN_PROGRESS}]_vars

(***************************************************************************)
(* SpecMemory: a fresh run on a site of three pages, from Phase 2 on,      *)
(* while the periodic health check finds the memory low, within one tick   *)
(* of the clock                                                            *)
(***************************************************************************)
MemoryInit ==
    /\ call = NoCall
    /\ ret = <<>>
    /\ before_reset = StatusMap(<<>>)
    /\ first_add = [u \in URLs |-> NeverAdded]
    /\ before_add = <<>>
    /\ BreakerInit
    /\ UtilInit
    /\ pages = discover_sitemap(clear_all(<<>>), SmallSiteOrder, 1)
    /\ pages0 = <<>>
    /\ resume = FALSE
    /\ dry_run = FALSE
    /\ max_retry_attempts = MaxRetryAttempts
    /\ domain_restriction = "product"
    /\ workers \in {Workers, 2 * Workers}
    /\ semaphore = NoSemaphore
    /\ main = "scrape"
    /\ db_open = TRUE
    /\ tasks = [u \in UrlsOf(pages) |-> NoTask]
    /\ health = "running"
    /\ failed_pages_count = 0
    /\ pages_scraped = 0
    /\ touched = {}
    /\ cb_opened = FALSE
    /\ url_to_filepath_map = [u \in DOMAIN tasks |-> NULL]
    /\ saved_files = {}

\* _periodic_health_check: a poll that passes the runtime check and finds
\* health["checks"]["memory"]["healthy"] false:
\* new_workers = max(1, workers // 2), stored when it is smaller
MemoryLow ==
    /\ health = "running"
    /\ ~(MaxRuntime > 0 /\ now - 0 >= MaxRuntime)
    /\ LET new_workers == IF workers \div 2 >= 1 THEN workers \div 2 ELSE 1
       IN  /\ new_workers < workers
           /\ workers' = new_workers
    /\ UNCHANGED <<pages, cb, now, main, db_open, tasks, health, failed_pages_count,
                   pages_scraped, touched, cb_opened, settings, semaphore, others>>

MemoryNext ==
    \/ ScrapePages
    \/ GatherDone
    \/ DownloadImages
    \/ RetryFailedPages
    \/ LaterPhase
    \/ Finish
    \/ MemoryLow
    \/ \E u \in Site : RetryPage(u)
    \/ \E u \in Site : Begin(u)
    \/ \E u \in Site : Gate(u)
    \/ \E u \in Site : Fetch(u)
    \/ \E u \in Site : Save(u)
    \/ \E u \in Site : Succeed(u)
    \/ \E u \in Site : Fail(u)
    \/ \E u \in Site : CountFailure(u)

SpecMemory == MemoryInit /\ [][MemoryNext]_vars

(***************************************************************************)
(* C32: the worker pool and the memory check                               *)
(***************************************************************************)
\* the workers inside the semaphore of the running phase
InFlightCount == Cardinality({u \in Site : InFlight(u)})

\* the worker of u passes the semaphore
EnterStep(u) == tasks[u].pc = "queued" /\ tasks'[u].pc # "queued"

\* C32 as stated: once the memory check has halved config["workers"], the
\* running phase lets a page in only while fewer than that many are being
\* processed
C32_PoolHalvedAsStated ==
    [][\A u \in Site : EnterStep(u) => InFlightCount < workers]_vars

\* C32 for the pool as it is built: the semaphore keeps the value it was
\* created with, whatever the memory check does in the meantime; the value
\* a later phase creates its semaphore with is never above the one before,
\* and config["workers"] never grows
C32_PoolFixedAtCreation ==
    [][/\ \A u \in Site : EnterStep(u) => InFlightCount < semaphore
       /\ workers' # workers => /\ semaphore' = semaphore
                                /\ 2 * workers' <= workers \/ (workers' = 1 /\ workers > 1)
       /\ workers' <= workers
       /\ semaphore # NoSemaphore => semaphore' <= semaphore]_vars

\* the memory check has halved the workers while the scrape phase runs on a
\* semaphore of the former value, with more pages inside than the new value
C32_Witness ==
    /\ main = "scrape_wait"
    /\ workers < semaphore
    /\ InFlightCount > workers

(***************************************************************************)
(* SpecLoad: LinkResolver.load_from_state_manager called twice on a pages  *)
(* table that does not change, by a resolver that may hold older mappings. *)
(* URLs are the LinkURLs (a page name, with or without a trailing slash)   *)
(***************************************************************************)
\* rows in a pages table
MaxRows == 2

\* calls of load_from_state_manager
MaxLoads == 2

LoadURLs == {u \in LinkURLs : u.name \in {"A", "B"}}

LoadTitles == {NULL, "T", "t"}

LoadPaths == {NULL, "a.md", "s/a.md", "b.md"}

\* Path(file_path).stem: the last segment without its extension
stem(file_path) ==
    CASE file_path = "a.md" -> "a"
      [] file_path = "s/a.md" -> "a"
      [] file_path = "b.md" -> "b"
      [] OTHER -> file_path

\* str.lower()
lower(title) == IF title = "T" THEN "t" ELSE title

\* SELECT url, title, file_path FROM pages: tables of up to MaxRows rows, url
\* being the primary key
LoadTables ==
    UNION {{rows \in [1..n -> [url : LoadURLs, title : LoadTitles, file_path : LoadPaths]] :
               \A i, j \in 1..n : i # j => rows[i].url # rows[j].url} : n \in 0..MaxRows}

\* dict[key] = value
put(d, key, value) == [k \in DOMAIN d \cup {key} |-> IF k = key THEN value ELSE d[k]]

EmptyDict == [k \in {} |-> NULL]

\* add_page_mapping with dict.setdefault in place of the assignments
add_page_mapping_setdefault(t, url, title, file_path) ==
    IF file_path = NULL THEN t
    ELSE [url_to_filepath_map |->
              IF rstrip(url) \in DOMAIN t.url_to_filepath_map THEN t.url_to_filepath_map
              ELSE put(t.url_to_filepath_map, rstrip(url), with_suffix_none(file_path)),
          url_to_filename_map |->
              IF rstrip(url) \in DOMAIN t.url_to_filename_map THEN t.url_to_filename_map
              ELSE put(t.url_to_filename_map, rstrip(url), stem(file_path)),
          title_to_filename_map |->
              IF title = NULL \/ lower(title) \in DOMAIN t.title_to_filename_map
              THEN t.title_to_filename_map
              ELSE put(t.title_to_filename_map, lower(title), stem(file_path))]

\* LinkResolver.add_page_mapping on the three tables: nothing without a file
\* path; the path without extension and the stem under url.rstrip("/"), and
\* the stem under title.lower() when there is a title
add_page_mapping_tables(t, url, title, file_path) ==
    IF file_path = NULL THEN t
    ELSE [url_to_filepath_map |->
              put(t.url_to_filepath_map, rstrip(url), with_suffix_none(file_path)),
          url_to_filename_map |->
              put(t.url_to_filename_map, rstrip(url), stem(file_path)),
          title_to_filename_map |->
              IF title # NULL
              THEN put(t.title_to_filename_map, lower(title), stem(file_path))
              ELSE t.title_to_filename_map]

\* for page in pages: self.add_page_mapping(...), pages being the rows
\* WHERE file_path IS NOT NULL in table order
RECURSIVE load_rows(_, _, _)
load_rows(t, rows, i) ==
    IF i > Len(rows) THEN t
    ELSE load_rows(IF rows[i].file_path # NULL
                   THEN add_page_mapping_tables(t, rows[i].url, rows[i].title,
                                                rows[i].file_path)
                   ELSE t, rows, i + 1)

\* the tables of a new resolver, and of one that mapped page A and title t to
\* document b before
OlderTables ==
    {[url_to_filepath_map |-> EmptyDict, url_to_filename_map |-> EmptyDict,
      title_to_filename_map |-> EmptyDict],
     [url_to_filepath_map |-> put(EmptyDict, [name |-> "A", slashes |-> 0], "b"),
      url_to_filename_map |-> put(EmptyDict, [name |-> "A", slashes |-> 0], "b"),
      title_to_filename_map |-> put(EmptyDict, "t", "b")]}

LoadInit ==
    /\ FrontierInit
    /\ BreakerInit
    /\ RunInit
    /\ retry = NoRetry
    /\ backoff = [pc |-> "idle"]
    /\ limiter = [made |-> FALSE]
    /\ LinkInit
    /\ SaveIdle
    /\ ThrottleIdle
    /\ resolver \in {[pc |-> "ready", db |-> open, rows |-> rows, older |-> t,
                       tables |-> t, loaded |-> <<>>] :
                        open \in BOOLEAN, rows \in LoadTables, t \in OlderTables}

\* load_from_state_manager: with the connection open the rows are mapped one
\* by one; without it the exception is logged and nothing is mapped
LoadFromStateManager ==
    /\ resolver.pc = "ready"
    /\ Len(resolver.loaded) < MaxLoads
    /\ LET t == IF resolver.db THEN load_rows(resolver.tables, resolver.rows, 1)
                ELSE resolver.tables
       IN  resolver' = [resolver EXCEPT !.tables = t, !.loaded = Append(@, t)]

LoadNext ==
    LoadFromStateManager /\ UNCHANGED <<fvars, bvars, rvars, retry, backoff, limiter, lvars,
                                        files, saves, fetching>>

SpecLoad == LoadInit /\ [][LoadNext]_vars

(***************************************************************************)
(* C33: load_from_state_manager as an idempotent overwrite                 *)
(***************************************************************************)
\* load_from_state_manager has returned from a call made with the connection open
Loaded == resolver.pc = "ready" /\ resolver.db /\ Len(resolver.loaded) >= 1

\* a later row of the table is mapped under the same key as row i
Shadowed(rows, i) ==
    \E j \in DOMAIN rows :
        j > i /\ rows[j].file_path # NULL /\ rstrip(rows[j].url) = rstrip(rows[i].url)

\* every further call has left the three tables as the first call left them
SecondCallChangesNothing ==
    \A n \in DOMAIN resolver.loaded : resolver.loaded[n] = resolver.loaded[1]

RECURSIVE Walk(_, _, _)
Walk(redirects, u, n) ==
    IF u \notin DOMAIN redirects \/ n = 0 THEN u
    ELSE Walk(redirects, redirects[u], n - 1)

\* no chain of entries, read as written, comes back to one of its URLs
AcyclicAsWritten(redirects) ==
    \A k \in DOMAIN redirects :
        Walk(redirects, k, Cardinality(DOMAIN redirects) + 1) \notin DOMAIN redirects

\* an entry leads from page a to page b, trailing slashes set aside
Edge(redirects, a, b) == \E k \in DOMAIN redirects : k.name = a /\ redirects[k].name = b

\* the pages reached from the pages of S in up to n more entries
RECURSIVE Reach(_, _, _)
Reach(redirects, S, n) ==
    IF n = 0 THEN S
    ELSE Reach(redirects, S \cup {b \in PageNames : \E a \in S : Edge(redirects, a, b)}, n - 1)

\* no chain of entries comes back to a page it left, trailing slashes set aside
AcyclicByPage(redirects) ==
    \A a \in PageNames :
        a \notin Reach(redirects, {b \in PageNames : Edge(redirects, a, b)},
                       Cardinality(PageNames))

\* _follow_redirects(url) as a function: the loop run to its return
RECURSIVE follow_all(_)
follow_all(f) == IF f.pc = "returned" THEN f.current_url ELSE follow_all(follow_step(f))

follow_redirects(redirects, url) ==
    follow_all([pc |-> "loop", redirects |-> redirects, url |-> url, current_url |-> url,
                seen |-> {}])

\* what the call that has returned gave: a URL without entry comes back as it
\* is; otherwise the result is a page the entries lead to from url, without
\* trailing slash, with no entry under either form, and _follow_redirects of
\* it is itself
ReturnedFixedPoint ==
    IF ~redirect_found(follow.redirects, follow.url)
    THEN follow.current_url = follow.url
    ELSE /\ follow.current_url.slashes = 0
         /\ follow.current_url.name \in
               Reach(follow.redirects, {follow.url.name}, Cardinality(PageNames))
         /\ follow.current_url \notin DOMAIN follow.redirects
         /\ with_slash(follow.current_url) \notin DOMAIN follow.redirects
         /\ follow_redirects(follow.redirects, follow.current_url) = follow.current_url

C35_StateMatchesCount ==
    /\ cb.state = CLOSED <=> cb.failure_count < FailureThreshold
    /\ cb.state \in {OPEN, HALF_OPEN} =>
          /\ cb.failure_count >= FailureThreshold
          /\ cb.last_failure_time # NEVER

\* a breaker that went on failing after it had opened, half-opened by
\* can_attempt once the timeout had passed
C35_Witness ==
    /\ cb.state = HALF_OPEN
    /\ cb_call.op = "can_attempt"
    /\ cb_call.from = OPEN
    /\ cb.failure_count > FailureThreshold
    /\ now - cb.last_failure_time > RecoveryTimeout

(***************************************************************************)
(* C36: retry_count and the fetches that failed                            *)
(***************************************************************************)
\* C36 as stated: a page marked failed because the breaker refused the
\* attempt, without any fetch, keeps its retry_count
C36_RefusalKeepsRetryCountAsStated ==
    [][\A u \in Site :
          RefusedStep(u) => RowOf(pages', u).retry_count = RowOf(pages, u).retry_count]_vars

\* what update_page_status does with every failed status: the refusal adds 1
\* to retry_count as a failed fetch does, and retry_count changes in no other
\* way than by 1 on a step that leaves the page failed
C36_EveryFailedStatusCounts ==
    [][\A u \in Site :
          /\ RefusedStep(u) =>
                RowOf(pages', u).retry_count = RowOf(pages, u).retry_count + 1
          /\ (HasUrl(pages, u) /\ HasUrl(pages', u)
                /\ RowOf(pages', u).retry_count # RowOf(pages, u).retry_count)
             => /\ StatusOf(pages', u) = FAILED
                /\ RowOf(pages', u).retry_count = RowOf(pages, u).retry_count + 1]_vars

(***************************************************************************)
(* SpecAcquire: concurrent acquire() calls on one RateLimiter while time   *)
(* passes without end. Only the time elapsed since last_update and since   *)
(* the sleep began enters acquire, so the clock stays at 0 and a tick      *)
(* moves both instants one unit into the past, no further than Horizon,    *)
(* from where on the bucket is full and every sleep is over.               *)
(***************************************************************************)
\* rates, burst sizes and token requests
LimiterSizes == {1, 2}

\* the largest of them
Horizon == CHOOSE h \in LimiterSizes : \A k \in LimiterSizes : k <= h

AcquireInit ==
    /\ FrontierInit
    /\ BreakerInit
    /\ RunInit
    /\ retry = NoRetry
    /\ backoff = [pc |-> "idle"]
    /\ limiter \in {NewLimiter(rate, burst, want, 0) :
                        rate \in LimiterSizes, burst \in LimiterSizes,
                        want \in [Acquirers -> LimiterSizes]}
    /\ LinkInit
    /\ SaveIdle
    /\ ResolverIdle
    /\ ThrottleIdle

\* time.monotonic() advances by one unit
TimePasses ==
    /\ limiter' = [limiter EXCEPT
                      !.last_update = IF @ - 1 >= now - Horizon THEN @ - 1 ELSE @,
                      !.slept_at = IF @ - 1 >= now - Horizon THEN @ - 1 ELSE @]
    /\ UNCHANGED now

\* the variables acquire leaves alone
beside_limiter == <<fvars, rvars, retry, backoff, lvars, svars, cb, cb_call, cb_ret, streak>>

AcquireCalled == \E p \in Acquirers : LimiterAcquire(p) /\ UNCHANGED beside_limiter

AcquireLocked == \E p \in Acquirers : LimiterLocked(p) /\ UNCHANGED beside_limiter

AcquireWoken == \E p \in Acquirers : LimiterWake(p) /\ UNCHANGED beside_limiter

AcquireTick == TimePasses /\ UNCHANGED beside_limiter

AcquireNext ==
    \/ AcquireCalled
    \/ AcquireLocked
    \/ AcquireWoken
    \/ AcquireTick

\* the event loop runs the coroutine that is ready (the lock's first waiter,
\* the sleeper whose time is up: one at a time of each) and the clock goes
\* on; when acquire is called is up to the callers
AcquireFairness ==
    /\ WF_vars(AcquireTick)
    /\ WF_vars(AcquireLocked)
    /\ WF_vars(AcquireWoken)

SpecAcquire == AcquireInit /\ [][AcquireNext]_vars /\ AcquireFairness

(***************************************************************************)
(* C37: every acquire returns                                              *)
(***************************************************************************)
\* C37 as stated: whatever the rate, the burst size and the tokens asked
\* for, every acquire call that was made returns
C37_AcquireReturnsAsStated ==
    \A p \in Acquirers : (limiter.pc[p] # "idle") ~> (limiter.pc[p] = "done")

\* C37 for requests the bucket can hold: when no caller asks for more tokens
\* than the burst size, every acquire call that was made returns
C37_AcquireWithinBurstReturns ==
    \A p \in Acquirers :
        (limiter.pc[p] # "idle" /\ \A q \in Acquirers : limiter.want[q] <= limiter.burst)
            ~> (limiter.pc[p] = "done")

\* acquire(2) on a bucket of burst size 1 sleeps with the lock held after a
\* pass that found the bucket full, while another caller waits for the lock
C37_Witness ==
    /\ \E p \in Acquirers :
          /\ limiter.pc[p] = "sleeping"
          /\ limiter.holder = p
          /\ limiter.want[p] > limiter.burst
    /\ limiter.tokens = limiter.burst
    /\ limiter.waiters # <<>>

(***************************************************************************)
(* C38: retry_async calls func at least once                               *)
(***************************************************************************)
\* retry_async has returned or raised
RetryOver == retry.pc \in {"returned", "raised"}

\* C38 as stated: for every max_attempts the configuration accepts, 0
\* included, retry_async has called func at least once when it is over
C38_CalledAtLeastOnceAsStated == RetryOver => retry.calls >= 1

\* C38 for max_attempts >= 1: func was called at least once; with
\* max_attempts = 0 retry_async raises RuntimeError without a call
C38_CalledUnlessNoAttempts ==
    RetryOver =>
        IF retry.config.max_attempts >= 1 THEN retry.calls >= 1
        ELSE /\ retry.calls = 0
             /\ retry.pc = "raised"
             /\ retry.outcome.kind = "RuntimeError"

(***************************************************************************)
(* C39: the link resolver's mappings when the links are rewritten          *)
(***************************************************************************)
\* fix_wiki_links has reloaded the mappings and rewrites the documents
LinkPhaseStep == main = "links" /\ main' = "lint" /\ ~dry_run

\* the resolver maps u to the file_path of the record of u in P
MappedFromRecord(m, P, u) ==
    /\ HasUrl(P, u)
    /\ RowOf(P, u).file_path # NULL
    /\ m[u] = with_suffix_none(RowOf(P, u).file_path)

\* C39 as stated: when the link phase rewrites the documents, every mapping
\* the resolver holds is the file_path of a record of the current frontier,
\* in a fresh run as in a resumed one
C39_MappingsFromFrontierAsStated ==
    [][LinkPhaseStep =>
          \A u \in URLs :
              url_to_filepath_map'[u] # NULL =>
                  MappedFromRecord(url_to_filepath_map', pages', u)]_vars

\* C39 for resumed runs, whose frontier keeps the records the mappings were
\* loaded from; and in every run each record with a file_path is mapped to it
C39_MappingsFromFrontierOnResume ==
    [][LinkPhaseStep =>
          /\ resume => \A u \in URLs :
                          url_to_filepath_map'[u] # NULL =>
                              MappedFromRecord(url_to_filepath_map', pages', u)
          /\ \A u \in URLs :
                (HasUrl(pages', u) /\ RowOf(pages', u).file_path # NULL) =>
                    MappedFromRecord(url_to_filepath_map', pages', u)]_vars

====
